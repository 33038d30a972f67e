---------------------------- MODULE Api_proofs ------------------------------
(***************************************************************************)
(* Theorems about the API (Api, Connect and MCApi), for any number of        *)
(* requests and RPCs, any limits and any number of configurations: every     *)
(* slot is owned, answers are of one configuration that was not replaced     *)
(* before the request, and what clients are told of their writes is true.    *)
(***************************************************************************)
EXTENDS MCApi, FiniteSetTheorems, TLAPS

-----------------------------------------------------------------------------
(* Counting *)

\* A set that gains or loses a member.
LEMMA Gains ==
    ASSUME NEW S, NEW T, NEW c, IsFiniteSet(S), c \notin S, T = S \cup {c}
    PROVE  Cardinality(T) = Cardinality(S) + 1
BY FS_AddElement

LEMMA Loses ==
    ASSUME NEW S, NEW T, NEW c, IsFiniteSet(S), c \in S, T = S \ {c}
    PROVE  Cardinality(T) = Cardinality(S) - 1
BY FS_RemoveElement

\* A part of the requests is finite.
LEMMA Parts ==
    ASSUME NEW S, S \subseteq Requests
    PROVE  IsFiniteSet(S) /\ Cardinality(S) \in Nat
BY FS_Subset, FS_CardinalityType, ApiAssumption

-----------------------------------------------------------------------------
(* The Connect API *)

\* The RPCs that hold a token: for a unary RPC, for a stream, and to read the cluster.
Unaries == {c \in Requests : call[c].pc \in {"load", "acquire", "recheck", "wait", "release"}}
Streaming == {c \in Requests : call[c].pc = "streaming"}
Rechecking == {c \in Requests : call[c].pc = "recheck"}
Reading == {c \in Requests : snap[c].pc # "none"}

CallFields == {"pc", "kind", "ctx", "since", "config", "cluster", "first", "err"}

\* A call and its goroutine have their types, and were not begun in the future.
CallType(c) ==
    /\ DOMAIN call[c] = CallFields
    /\ call[c].pc \in {"none", "admission", "load", "acquire", "recheck", "wait", "release", "reply", "streaming"}
    /\ call[c].ctx \in {"live", "deadline", "canceled"}
    /\ call[c].since \in Nat /\ call[c].config \in Nat /\ call[c].cluster \in Nat /\ call[c].first \in Nat
    /\ DOMAIN snap[c] = {"pc", "view"} /\ snap[c].view \in Nat
    /\ snap[c].pc \in {"none", "peers", "result", "release"}
    /\ call[c].since <= config /\ call[c].first <= view

ConnectType ==
    /\ DOMAIN call = Requests /\ DOMAIN snap = Requests
    /\ unary \in Nat /\ streams \in Nat /\ csem \in Nat /\ config \in Nat /\ view \in Nat
    /\ \A c \in Requests : CallType(c)

\* What a call has read is fresh.  A goroutine belongs to the call that has started it, or to
\* one that no longer waits; before a call starts one there is none in its place.
CallInv(c) ==
    /\ call[c].pc \in {"admission", "load", "acquire", "recheck"} => snap[c].pc = "none" /\ call[c].cluster = 0
    /\ call[c].pc \in {"acquire", "recheck", "wait"} => call[c].config >= call[c].since
    /\ call[c].pc = "wait" /\ snap[c].pc = "result" => snap[c].view >= call[c].first
    /\ call[c].pc = "wait" /\ call[c].cluster # 0 => call[c].cluster >= call[c].first
    /\ call[c].pc = "streaming" => call[c].kind = "stream"
    /\ call[c].pc \in {"release", "reply"} /\ call[c].kind = "unary" /\ call[c].err = Nobody =>
          call[c].config >= call[c].since /\ call[c].cluster >= call[c].first

ConnectInv == ConnectType /\ (\A c \in Requests : CallInv(c)) /\ C!TokensAreOwned

\* The step changes at most the call c, its goroutine and the tokens.
Only(c) ==
    /\ DOMAIN call' = Requests /\ DOMAIN snap' = Requests
    /\ \A d \in Requests : d # c => call'[d] = call[d] /\ snap'[d] = snap[d]
    /\ config' = config /\ view' = view

\* Then the types and facts about the others stay.
LEMMA OnlyOthers ==
    ASSUME ConnectInv, NEW c \in Requests, Only(c), CallType(c)', CallInv(c)',
           unary' \in Nat, streams' \in Nat, csem' \in Nat
    PROVE  ConnectType' /\ (\A d \in Requests : CallInv(d)')
<1>1. ASSUME NEW d \in Requests PROVE CallType(d)' /\ CallInv(d)'
  <2>1. CASE d = c
    BY Zenon, <2>1
  <2>2. CASE d # c
    <3>1. call'[d] = call[d] /\ snap'[d] = snap[d] /\ config' = config /\ view' = view
      BY Zenon, <2>2 DEF Only
    <3> QED BY Zenon, <3>1 DEF CallType, CallInv, ConnectInv, ConnectType
  <2> QED BY Zenon, <2>1, <2>2
<1>2. config' \in Nat /\ view' \in Nat
  BY Zenon DEF ConnectInv, ConnectType, Only
<1> QED BY Zenon, <1>1, <1>2 DEF ConnectType, Only

\* Connect counts as the other modules do.
LEMMA SameCount == ASSUME NEW S PROVE C!Cardinality(S) = Cardinality(S)
BY Zenon DEF C!Cardinality, Cardinality

\* The tokens in terms of the sets above.
LEMMA Tokens ==
    C!TokensAreOwned <=>
        /\ unary = Cardinality(Unaries) /\ streams = Cardinality(Streaming)
        /\ csem = Cardinality(Reading) + Cardinality(Rechecking)
        /\ unary <= Unary /\ streams <= Streams /\ csem <= 1
BY Zenon, SameCount DEF C!TokensAreOwned, Unaries, Streaming, Reading, Rechecking

LEMMA FiniteHolders ==
    /\ IsFiniteSet(Unaries) /\ IsFiniteSet(Streaming) /\ IsFiniteSet(Reading) /\ IsFiniteSet(Rechecking)
    /\ Cardinality(Unaries) \in Nat /\ Cardinality(Streaming) \in Nat
    /\ Cardinality(Reading) \in Nat /\ Cardinality(Rechecking) \in Nat
BY Parts DEF Unaries, Streaming, Reading, Rechecking

\* Two parts of the requests that differ at most in c.
LEMMA Shift ==
    ASSUME NEW S, NEW T, NEW c \in Requests, S \subseteq Requests, T \subseteq Requests,
           \A d \in Requests : d # c => (d \in S <=> d \in T)
    PROVE  /\ (c \in S <=> c \in T) => Cardinality(T) = Cardinality(S)
           /\ c \notin S /\ c \in T => Cardinality(T) = Cardinality(S) + 1
           /\ c \in S /\ c \notin T => Cardinality(T) = Cardinality(S) - 1
<1>1. IsFiniteSet(S)
  BY Zenon, Parts
<1>2. ASSUME c \in S <=> c \in T PROVE T = S
  BY <1>2
<1>3. ASSUME c \notin S, c \in T PROVE T = S \cup {c}
  BY Zenon, <1>3
<1>4. ASSUME c \in S, c \notin T PROVE T = S \ {c}
  BY Zenon, <1>4
<1>5. c \notin S /\ c \in T => Cardinality(T) = Cardinality(S) + 1
  BY Zenon, <1>1, <1>3, Gains
<1>6. c \in S /\ c \notin T => Cardinality(T) = Cardinality(S) - 1
  BY Zenon, <1>1, <1>4, Loses
<1> QED BY Zenon, <1>2, <1>5, <1>6

\* How many tokens are held after a step of c.
LEMMA Holders ==
    ASSUME ConnectInv, NEW c \in Requests, Only(c)
    PROVE  /\ (c \in Unaries <=> c \in Unaries') => Cardinality(Unaries') = Cardinality(Unaries)
           /\ c \notin Unaries /\ c \in Unaries' => Cardinality(Unaries') = Cardinality(Unaries) + 1
           /\ c \in Unaries /\ c \notin Unaries' => Cardinality(Unaries') = Cardinality(Unaries) - 1
           /\ (c \in Streaming <=> c \in Streaming') => Cardinality(Streaming') = Cardinality(Streaming)
           /\ c \notin Streaming /\ c \in Streaming' => Cardinality(Streaming') = Cardinality(Streaming) + 1
           /\ c \in Streaming /\ c \notin Streaming' => Cardinality(Streaming') = Cardinality(Streaming) - 1
           /\ (c \in Rechecking <=> c \in Rechecking') => Cardinality(Rechecking') = Cardinality(Rechecking)
           /\ c \notin Rechecking /\ c \in Rechecking' => Cardinality(Rechecking') = Cardinality(Rechecking) + 1
           /\ c \in Rechecking /\ c \notin Rechecking' => Cardinality(Rechecking') = Cardinality(Rechecking) - 1
           /\ (c \in Reading <=> c \in Reading') => Cardinality(Reading') = Cardinality(Reading)
           /\ c \notin Reading /\ c \in Reading' => Cardinality(Reading') = Cardinality(Reading) + 1
           /\ c \in Reading /\ c \notin Reading' => Cardinality(Reading') = Cardinality(Reading) - 1
<1>1. \A d \in Requests : d # c => call'[d] = call[d] /\ snap'[d] = snap[d]
  BY Zenon DEF Only
<1>2. Unaries \subseteq Requests /\ Unaries' \subseteq Requests /\ \A d \in Requests : d # c => (d \in Unaries <=> d \in Unaries')
  BY Zenon, <1>1 DEF Unaries
<1>3. Streaming \subseteq Requests /\ Streaming' \subseteq Requests /\ \A d \in Requests : d # c => (d \in Streaming <=> d \in Streaming')
  BY Zenon, <1>1 DEF Streaming
<1>4. Rechecking \subseteq Requests /\ Rechecking' \subseteq Requests /\ \A d \in Requests : d # c => (d \in Rechecking <=> d \in Rechecking')
  BY Zenon, <1>1 DEF Rechecking
<1>5. Reading \subseteq Requests /\ Reading' \subseteq Requests /\ \A d \in Requests : d # c => (d \in Reading <=> d \in Reading')
  BY Zenon, <1>1 DEF Reading
<1>6. /\ (c \in Unaries <=> c \in Unaries') => Cardinality(Unaries') = Cardinality(Unaries)
      /\ c \notin Unaries /\ c \in Unaries' => Cardinality(Unaries') = Cardinality(Unaries) + 1
      /\ c \in Unaries /\ c \notin Unaries' => Cardinality(Unaries') = Cardinality(Unaries) - 1
  BY Zenon, <1>2, Shift
<1>7. /\ (c \in Streaming <=> c \in Streaming') => Cardinality(Streaming') = Cardinality(Streaming)
      /\ c \notin Streaming /\ c \in Streaming' => Cardinality(Streaming') = Cardinality(Streaming) + 1
      /\ c \in Streaming /\ c \notin Streaming' => Cardinality(Streaming') = Cardinality(Streaming) - 1
  BY Zenon, <1>3, Shift
<1>8. /\ (c \in Rechecking <=> c \in Rechecking') => Cardinality(Rechecking') = Cardinality(Rechecking)
      /\ c \notin Rechecking /\ c \in Rechecking' => Cardinality(Rechecking') = Cardinality(Rechecking) + 1
      /\ c \in Rechecking /\ c \notin Rechecking' => Cardinality(Rechecking') = Cardinality(Rechecking) - 1
  BY Zenon, <1>4, Shift
<1>9. /\ (c \in Reading <=> c \in Reading') => Cardinality(Reading') = Cardinality(Reading)
      /\ c \notin Reading /\ c \in Reading' => Cardinality(Reading') = Cardinality(Reading) + 1
      /\ c \in Reading /\ c \notin Reading' => Cardinality(Reading') = Cardinality(Reading) - 1
  BY Zenon, <1>5, Shift
<1> QED BY Zenon, <1>6, <1>7, <1>8, <1>9

\* A step of c whose tokens add up keeps the invariant.
LEMMA StepOf ==
    ASSUME ConnectInv, NEW c \in Requests, Only(c), CallType(c)', CallInv(c)',
           unary' \in Int, streams' \in Int, csem' \in Int,
           unary' - unary = Cardinality(Unaries') - Cardinality(Unaries), unary' <= Unary,
           streams' - streams = Cardinality(Streaming') - Cardinality(Streaming), streams' <= Streams,
           csem' - csem = Cardinality(Reading') - Cardinality(Reading)
                          + Cardinality(Rechecking') - Cardinality(Rechecking), csem' <= 1
    PROVE  ConnectInv'
<1>1. /\ unary = Cardinality(Unaries) /\ streams = Cardinality(Streaming)
      /\ csem = Cardinality(Reading) + Cardinality(Rechecking)
  BY Zenon, Tokens DEF ConnectInv
<1>2. /\ Cardinality(Unaries) \in Nat /\ Cardinality(Streaming) \in Nat
      /\ Cardinality(Reading) \in Nat /\ Cardinality(Rechecking) \in Nat
  BY Zenon, FiniteHolders
<1>3. /\ Cardinality(Unaries') \in Nat /\ Cardinality(Streaming') \in Nat
      /\ Cardinality(Reading') \in Nat /\ Cardinality(Rechecking') \in Nat
  BY Parts DEF Unaries, Streaming, Reading, Rechecking
<1>4. /\ unary' = Cardinality(Unaries') /\ streams' = Cardinality(Streaming')
      /\ csem' = Cardinality(Reading') + Cardinality(Rechecking')
  BY <1>1, <1>2, <1>3
<1>5. unary' \in Nat /\ streams' \in Nat /\ csem' \in Nat
  BY <1>3, <1>4
<1>6. C!TokensAreOwned'
  BY Zenon, <1>4, SameCount DEF C!TokensAreOwned, Unaries, Streaming, Reading, Rechecking
<1> QED BY Zenon, OnlyOthers, <1>5, <1>6 DEF ConnectInv

\* What the invariant says of a call.
LEMMA Known ==
    ASSUME ConnectInv, NEW c \in Requests
    PROVE  /\ CallType(c) /\ CallInv(c) /\ DOMAIN call = Requests /\ DOMAIN snap = Requests
           /\ unary \in Nat /\ streams \in Nat /\ csem \in Nat /\ config \in Nat /\ view \in Nat
           /\ unary <= Unary /\ streams <= Streams /\ csem <= 1 /\ Unary \in Nat /\ Streams \in Nat
BY Zenon, Tokens, ConnectAssumption DEF ConnectInv, ConnectType

\* The sets of the holders, one call at a time.
LEMMA Holds ==
    ASSUME NEW c \in Requests
    PROVE  /\ c \in Unaries <=> call[c].pc \in {"load", "acquire", "recheck", "wait", "release"}
           /\ c \in Streaming <=> call[c].pc = "streaming"
           /\ c \in Rechecking <=> call[c].pc = "recheck"
           /\ c \in Reading <=> snap[c].pc # "none"
           /\ c \in Unaries' <=> call'[c].pc \in {"load", "acquire", "recheck", "wait", "release"}
           /\ c \in Streaming' <=> call'[c].pc = "streaming"
           /\ c \in Rechecking' <=> call'[c].pc = "recheck"
           /\ c \in Reading' <=> snap'[c].pc # "none"
BY Zenon DEF Unaries, Streaming, Rechecking, Reading

\* A request arrives.
LEMMA ReceiveStep ==
    ASSUME ConnectInv, NEW c \in Requests, C!Receive(c)
    PROVE  ConnectInv'
<1>1. /\ Only(c) /\ snap' = snap /\ unary' = unary /\ streams' = streams /\ csem' = csem
  BY Known DEF C!Receive, Only
<1>2. PICK kind \in {"unary", "stream"} : call'[c] = [C!NoCall EXCEPT !.pc = "admission", !.kind = kind, !.since = config, !.first = view]
  BY Zenon, Known DEF C!Receive
<1>3. /\ DOMAIN call'[c] = CallFields /\ call'[c].pc = "admission" /\ call'[c].ctx = "live"
      /\ call'[c].since = config /\ call'[c].config = 0 /\ call'[c].cluster = 0 /\ call'[c].first = view
  BY <1>2 DEF C!NoCall, CallFields
<1>4. call[c].pc = "none" /\ snap[c].pc = "none"
  BY Zenon DEF C!Receive
<1>5. CallType(c)' /\ CallInv(c)'
  BY Known, <1>1, <1>3, <1>4 DEF CallType, CallInv, Only
<1>6. /\ Cardinality(Unaries') = Cardinality(Unaries) /\ Cardinality(Streaming') = Cardinality(Streaming)
      /\ Cardinality(Rechecking') = Cardinality(Rechecking) /\ Cardinality(Reading') = Cardinality(Reading)
  BY <1>1, <1>3, <1>4, Holders, Holds
<1> QED BY <1>1, <1>5, <1>6, StepOf, Known, FiniteHolders

\* A call goes on to the step v.
LEMMA GoesOn ==
    ASSUME ConnectInv, NEW c \in Requests, NEW v, call' = [call EXCEPT ![c].pc = v]
    PROVE  /\ DOMAIN call' = Requests /\ (\A d \in Requests : d # c => call'[d] = call[d])
           /\ DOMAIN call'[c] = CallFields /\ call'[c].pc = v /\ call'[c].kind = call[c].kind
           /\ call'[c].ctx = call[c].ctx /\ call'[c].since = call[c].since /\ call'[c].config = call[c].config
           /\ call'[c].cluster = call[c].cluster /\ call'[c].first = call[c].first /\ call'[c].err = call[c].err
BY Known DEF CallType, CallFields

\* A call ends with the error w.
LEMMA Fails ==
    ASSUME ConnectInv, NEW c \in Requests, NEW v, NEW w, call' = [call EXCEPT ![c].pc = v, ![c].err = w]
    PROVE  /\ DOMAIN call' = Requests /\ (\A d \in Requests : d # c => call'[d] = call[d])
           /\ DOMAIN call'[c] = CallFields /\ call'[c].pc = v /\ call'[c].kind = call[c].kind
           /\ call'[c].ctx = call[c].ctx /\ call'[c].since = call[c].since /\ call'[c].config = call[c].config
           /\ call'[c].cluster = call[c].cluster /\ call'[c].first = call[c].first /\ call'[c].err = w
BY Known DEF CallType, CallFields

\* Admission of a unary RPC.
LEMMA WrapUnaryStep ==
    ASSUME ConnectInv, NEW c \in Requests, C!WrapUnary(c)
    PROVE  ConnectInv'
<1>1. /\ call[c].pc = "admission" /\ snap' = snap /\ streams' = streams /\ csem' = csem /\ config' = config /\ view' = view
  BY Zenon DEF C!WrapUnary
<1>2. CASE unary < Unary
  <2>1. unary' = unary + 1 /\ call' = [call EXCEPT ![c].pc = "load"]
    BY Zenon, <1>2 DEF C!WrapUnary
  <2>2. Only(c) /\ CallType(c)' /\ CallInv(c)'
    BY <1>1, <2>1, GoesOn, Known DEF Only, CallType, CallInv
  <2>3. call'[c].pc = "load" /\ snap'[c] = snap[c]
    BY Zenon, <1>1, <2>1, GoesOn
  <2>4. /\ Cardinality(Unaries') = Cardinality(Unaries) + 1 /\ Cardinality(Streaming') = Cardinality(Streaming)
        /\ Cardinality(Rechecking') = Cardinality(Rechecking) /\ Cardinality(Reading') = Cardinality(Reading)
    BY <1>1, <2>2, <2>3, Holders, Holds
  <2> QED BY <1>1, <1>2, <2>1, <2>2, <2>4, StepOf, Known, FiniteHolders
<1>3. CASE ~(unary < Unary)
  <2>1. unary' = unary /\ call' = [call EXCEPT ![c].pc = "reply", ![c].err = "exhausted"]
    BY Zenon, <1>3 DEF C!WrapUnary
  <2>2. Only(c) /\ CallType(c)' /\ CallInv(c)'
    BY <1>1, <2>1, Fails, Known, ConnectAssumption DEF Only, CallType, CallInv
  <2>3. call'[c].pc = "reply" /\ snap'[c] = snap[c]
    BY Zenon, <1>1, <2>1, Fails
  <2>4. /\ Cardinality(Unaries') = Cardinality(Unaries) /\ Cardinality(Streaming') = Cardinality(Streaming)
        /\ Cardinality(Rechecking') = Cardinality(Rechecking) /\ Cardinality(Reading') = Cardinality(Reading)
    BY <1>1, <2>2, <2>3, Holders, Holds
  <2> QED BY <1>1, <2>1, <2>2, <2>4, StepOf, Known, FiniteHolders
<1> QED BY Zenon, <1>2, <1>3

\* Admission of a stream.
LEMMA WrapStreamingStep ==
    ASSUME ConnectInv, NEW c \in Requests, C!WrapStreamingHandler(c)
    PROVE  ConnectInv'
<1>1. /\ call[c].pc = "admission" /\ call[c].kind = "stream" /\ snap' = snap /\ unary' = unary /\ csem' = csem
      /\ config' = config /\ view' = view
  BY Zenon DEF C!WrapStreamingHandler
<1>2. CASE streams < Streams
  <2>1. streams' = streams + 1 /\ call' = [call EXCEPT ![c].pc = "streaming"]
    BY Zenon, <1>2 DEF C!WrapStreamingHandler
  <2>2. Only(c) /\ CallType(c)' /\ CallInv(c)'
    BY <1>1, <2>1, GoesOn, Known DEF Only, CallType, CallInv
  <2>3. call'[c].pc = "streaming" /\ snap'[c] = snap[c]
    BY Zenon, <1>1, <2>1, GoesOn
  <2>4. /\ Cardinality(Unaries') = Cardinality(Unaries) /\ Cardinality(Streaming') = Cardinality(Streaming) + 1
        /\ Cardinality(Rechecking') = Cardinality(Rechecking) /\ Cardinality(Reading') = Cardinality(Reading)
    BY <1>1, <2>2, <2>3, Holders, Holds
  <2> QED BY <1>1, <1>2, <2>1, <2>2, <2>4, StepOf, Known, FiniteHolders
<1>3. CASE ~(streams < Streams)
  <2>1. streams' = streams /\ call' = [call EXCEPT ![c].pc = "reply", ![c].err = "exhausted"]
    BY Zenon, <1>3 DEF C!WrapStreamingHandler
  <2>2. Only(c) /\ CallType(c)' /\ CallInv(c)'
    BY <1>1, <2>1, Fails, Known, ConnectAssumption DEF Only, CallType, CallInv
  <2>3. call'[c].pc = "reply" /\ snap'[c] = snap[c]
    BY Zenon, <1>1, <2>1, Fails
  <2>4. /\ Cardinality(Unaries') = Cardinality(Unaries) /\ Cardinality(Streaming') = Cardinality(Streaming)
        /\ Cardinality(Rechecking') = Cardinality(Rechecking) /\ Cardinality(Reading') = Cardinality(Reading)
    BY <1>1, <2>2, <2>3, Holders, Holds
  <2> QED BY <1>1, <2>1, <2>2, <2>4, StepOf, Known, FiniteHolders
<1> QED BY Zenon, <1>2, <1>3

\* The context ends, or the configuration is loaded.
LEMMA ContextDoneStep ==
    ASSUME ConnectInv, NEW c \in Requests, C!ContextDone(c)
    PROVE  ConnectInv'
<1>1. /\ snap' = snap /\ unary' = unary /\ streams' = streams /\ csem' = csem /\ config' = config /\ view' = view
  BY Zenon DEF C!ContextDone
<1>2. PICK why \in {"deadline", "canceled"} : call' = [call EXCEPT ![c].ctx = why]
  BY Zenon DEF C!ContextDone
<1>3. /\ DOMAIN call' = Requests /\ (\A d \in Requests : d # c => call'[d] = call[d])
      /\ DOMAIN call'[c] = CallFields /\ call'[c].pc = call[c].pc /\ call'[c].kind = call[c].kind
      /\ call'[c].ctx = why /\ call'[c].since = call[c].since /\ call'[c].config = call[c].config
      /\ call'[c].cluster = call[c].cluster /\ call'[c].first = call[c].first /\ call'[c].err = call[c].err
  BY <1>2, Known DEF CallType, CallFields
<1>4. Only(c) /\ CallType(c)' /\ CallInv(c)'
  BY <1>1, <1>3, Known DEF Only, CallType, CallInv
<1>5. /\ Cardinality(Unaries') = Cardinality(Unaries) /\ Cardinality(Streaming') = Cardinality(Streaming)
      /\ Cardinality(Rechecking') = Cardinality(Rechecking) /\ Cardinality(Reading') = Cardinality(Reading)
  BY <1>1, <1>3, <1>4, Holders, Holds
<1> QED BY <1>1, <1>4, <1>5, StepOf, Known, FiniteHolders

LEMMA GetStatusStep ==
    ASSUME ConnectInv, NEW c \in Requests, C!GetStatus(c)
    PROVE  ConnectInv'
<1>1. /\ snap' = snap /\ unary' = unary /\ streams' = streams /\ csem' = csem /\ config' = config /\ view' = view
      /\ call[c].pc = "load" /\ call' = [call EXCEPT ![c].pc = "acquire", ![c].config = config]
  BY Zenon DEF C!GetStatus
<1>2. /\ DOMAIN call' = Requests /\ (\A d \in Requests : d # c => call'[d] = call[d])
      /\ DOMAIN call'[c] = CallFields /\ call'[c].pc = "acquire" /\ call'[c].kind = call[c].kind
      /\ call'[c].ctx = call[c].ctx /\ call'[c].since = call[c].since /\ call'[c].config = config
      /\ call'[c].cluster = call[c].cluster /\ call'[c].first = call[c].first /\ call'[c].err = call[c].err
  BY <1>1, Known DEF CallType, CallFields
<1>3. Only(c) /\ CallType(c)' /\ CallInv(c)'
  BY <1>1, <1>2, Known DEF Only, CallType, CallInv
<1>4. /\ Cardinality(Unaries') = Cardinality(Unaries) /\ Cardinality(Streaming') = Cardinality(Streaming)
      /\ Cardinality(Rechecking') = Cardinality(Rechecking) /\ Cardinality(Reading') = Cardinality(Reading)
  BY <1>1, <1>2, <1>3, Holders, Holds
<1> QED BY <1>1, <1>3, <1>4, StepOf, Known, FiniteHolders


\* The semaphore of the snapshots, or the end of the context.
LEMMA AcquireSnapshotStep ==
    ASSUME ConnectInv, NEW c \in Requests, C!AcquireSnapshot(c)
    PROVE  ConnectInv'
<1>1. /\ call[c].pc = "acquire" /\ snap' = snap /\ unary' = unary /\ streams' = streams /\ config' = config /\ view' = view
  BY Zenon DEF C!AcquireSnapshot
<1>2. CASE csem = 0 /\ csem' = 1 /\ call' = [call EXCEPT ![c].pc = "recheck"]
  <2>1. Only(c) /\ CallType(c)' /\ CallInv(c)'
    BY <1>1, <1>2, GoesOn, Known DEF Only, CallType, CallInv
  <2>2. call'[c].pc = "recheck" /\ snap'[c] = snap[c]
    BY Zenon, <1>1, <1>2, GoesOn
  <2>3. /\ Cardinality(Unaries') = Cardinality(Unaries) /\ Cardinality(Streaming') = Cardinality(Streaming)
        /\ Cardinality(Rechecking') = Cardinality(Rechecking) + 1 /\ Cardinality(Reading') = Cardinality(Reading)
    BY <1>1, <2>1, <2>2, Holders, Holds
  <2> QED BY <1>1, <1>2, <2>1, <2>3, StepOf, Known, FiniteHolders
<1>3. CASE call[c].ctx # "live" /\ call' = [call EXCEPT ![c].pc = "release", ![c].err = call[c].ctx] /\ csem' = csem
  <2>1. Only(c) /\ CallType(c)' /\ CallInv(c)'
    BY <1>1, <1>3, Fails, Known, ConnectAssumption DEF Only, CallType, CallInv
  <2>2. call'[c].pc = "release" /\ snap'[c] = snap[c]
    BY Zenon, <1>1, <1>3, Fails
  <2>3. /\ Cardinality(Unaries') = Cardinality(Unaries) /\ Cardinality(Streaming') = Cardinality(Streaming)
        /\ Cardinality(Rechecking') = Cardinality(Rechecking) /\ Cardinality(Reading') = Cardinality(Reading)
    BY <1>1, <2>1, <2>2, Holders, Holds
  <2> QED BY <1>1, <1>3, <2>1, <2>3, StepOf, Known, FiniteHolders
<1> QED BY Zenon, <1>2, <1>3 DEF C!AcquireSnapshot

\* The context is looked at again; the semaphore goes back, or to the goroutine.
LEMMA RecheckStep ==
    ASSUME ConnectInv, NEW c \in Requests, C!Recheck(c)
    PROVE  ConnectInv'
<1>1. /\ call[c].pc = "recheck" /\ unary' = unary /\ streams' = streams /\ config' = config /\ view' = view
  BY Zenon DEF C!Recheck
<1>0. snap[c].pc = "none"
  BY <1>1, Known DEF CallInv
<1>2. CASE call[c].ctx # "live"
  <2>0. /\ call' = [call EXCEPT ![c].pc = "release", ![c].err = call[c].ctx] /\ csem' = csem - 1 /\ snap' = snap
    BY Zenon, <1>2 DEF C!Recheck
  <2>1. Only(c) /\ CallType(c)' /\ CallInv(c)'
    BY <1>1, <1>2, <2>0, Fails, Known, ConnectAssumption DEF Only, CallType, CallInv
  <2>2. call'[c].pc = "release" /\ snap'[c] = snap[c]
    BY Zenon, <2>0, Fails
  <2>3. /\ Cardinality(Unaries') = Cardinality(Unaries) /\ Cardinality(Streaming') = Cardinality(Streaming)
        /\ Cardinality(Rechecking') = Cardinality(Rechecking) - 1 /\ Cardinality(Reading') = Cardinality(Reading)
    BY <1>1, <2>1, <2>2, Holders, Holds
  <2> QED BY <1>1, <2>0, <2>1, <2>3, StepOf, Known, FiniteHolders
<1>3. CASE ~(call[c].ctx # "live")
  <2>0. /\ call' = [call EXCEPT ![c].pc = "wait"] /\ snap' = [snap EXCEPT ![c].pc = "peers"] /\ csem' = csem
    BY Zenon, <1>3 DEF C!Recheck
  <2>4. /\ DOMAIN snap' = Requests /\ (\A d \in Requests : d # c => snap'[d] = snap[d])
        /\ DOMAIN snap'[c] = {"pc", "view"} /\ snap'[c].pc = "peers" /\ snap'[c].view = snap[c].view
    BY <2>0, Known DEF CallType
  <2>1. Only(c) /\ CallType(c)' /\ CallInv(c)'
    BY <1>1, <2>0, <2>4, GoesOn, Known DEF Only, CallType, CallInv
  <2>5. call'[c].pc = "wait"
    BY Zenon, <2>0, GoesOn
  <2>2. call'[c].pc = "wait" /\ snap'[c].pc = "peers"
    BY Zenon, <2>4, <2>5
  <2>3. /\ Cardinality(Unaries') = Cardinality(Unaries) /\ Cardinality(Streaming') = Cardinality(Streaming)
        /\ Cardinality(Rechecking') = Cardinality(Rechecking) - 1 /\ Cardinality(Reading') = Cardinality(Reading) + 1
    BY <1>0, <1>1, <2>1, <2>2, Holders, Holds
  <2> QED BY <1>1, <2>0, <2>1, <2>3, StepOf, Known, FiniteHolders
<1> QED BY Zenon, <1>2, <1>3

\* The goroutine reads the cluster.
LEMMA PeersStep ==
    ASSUME ConnectInv, NEW c \in Requests, C!Peers(c)
    PROVE  ConnectInv'
<1>1. /\ snap[c].pc = "peers" /\ snap' = [snap EXCEPT ![c] = [pc |-> "result", view |-> view]]
      /\ call' = call /\ csem' = csem /\ unary' = unary /\ streams' = streams /\ config' = config /\ view' = view
  BY Zenon DEF C!Peers
<1>2. /\ DOMAIN snap' = Requests /\ (\A d \in Requests : d # c => snap'[d] = snap[d])
      /\ DOMAIN snap'[c] = {"pc", "view"} /\ snap'[c].pc = "result" /\ snap'[c].view = view
  BY <1>1, Known DEF CallType
<1>3. Only(c) /\ CallType(c)' /\ CallInv(c)'
  BY <1>1, <1>2, Known DEF Only, CallType, CallInv
<1>4. /\ Cardinality(Unaries') = Cardinality(Unaries) /\ Cardinality(Streaming') = Cardinality(Streaming)
      /\ Cardinality(Rechecking') = Cardinality(Rechecking) /\ Cardinality(Reading') = Cardinality(Reading)
  BY <1>1, <1>2, <1>3, Holders, Holds
<1> QED BY <1>1, <1>3, <1>4, StepOf, Known, FiniteHolders

\* The goroutine sends what it has read.
LEMMA SendResultStep ==
    ASSUME ConnectInv, NEW c \in Requests, C!SendResult(c)
    PROVE  ConnectInv'
<1>1. /\ snap[c].pc = "result" /\ snap' = [snap EXCEPT ![c].pc = "release"]
      /\ csem' = csem /\ unary' = unary /\ streams' = streams /\ config' = config /\ view' = view
      /\ call' = IF call[c].pc = "wait" THEN [call EXCEPT ![c].cluster = snap[c].view] ELSE call
  BY Zenon DEF C!SendResult
<1>2. /\ DOMAIN snap' = Requests /\ (\A d \in Requests : d # c => snap'[d] = snap[d])
      /\ DOMAIN snap'[c] = {"pc", "view"} /\ snap'[c].pc = "release" /\ snap'[c].view = snap[c].view
  BY <1>1, Known DEF CallType
<1>3. /\ DOMAIN call' = Requests /\ (\A d \in Requests : d # c => call'[d] = call[d])
      /\ DOMAIN call'[c] = CallFields /\ call'[c].pc = call[c].pc /\ call'[c].kind = call[c].kind
      /\ call'[c].ctx = call[c].ctx /\ call'[c].since = call[c].since /\ call'[c].config = call[c].config
      /\ call'[c].cluster = (IF call[c].pc = "wait" THEN snap[c].view ELSE call[c].cluster)
      /\ call'[c].first = call[c].first /\ call'[c].err = call[c].err
  BY <1>1, Known DEF CallType, CallFields
<1>4. Only(c)
  BY Zenon, <1>1, <1>2, <1>3 DEF Only
<1>5. CallType(c)' /\ CallInv(c)'
  BY <1>1, <1>2, <1>3, Known DEF CallType, CallInv
<1>6. /\ Cardinality(Unaries') = Cardinality(Unaries) /\ Cardinality(Streaming') = Cardinality(Streaming)
      /\ Cardinality(Rechecking') = Cardinality(Rechecking) /\ Cardinality(Reading') = Cardinality(Reading)
  BY <1>1, <1>2, <1>3, <1>4, Holders, Holds
<1> QED BY <1>1, <1>4, <1>5, <1>6, StepOf, Known, FiniteHolders

\* The goroutine gives the semaphore back.
LEMMA ReleaseSnapshotStep ==
    ASSUME ConnectInv, NEW c \in Requests, C!ReleaseSnapshot(c)
    PROVE  ConnectInv'
<1>1. /\ snap[c].pc = "release" /\ snap' = [snap EXCEPT ![c] = [pc |-> "none", view |-> 0]]
      /\ call' = call /\ csem' = csem - 1 /\ unary' = unary /\ streams' = streams /\ config' = config /\ view' = view
  BY Zenon DEF C!ReleaseSnapshot
<1>2. /\ DOMAIN snap' = Requests /\ (\A d \in Requests : d # c => snap'[d] = snap[d])
      /\ DOMAIN snap'[c] = {"pc", "view"} /\ snap'[c].pc = "none" /\ snap'[c].view = 0
  BY <1>1, Known DEF CallType
<1>3. Only(c) /\ CallType(c)' /\ CallInv(c)'
  BY <1>1, <1>2, Known DEF Only, CallType, CallInv
<1>4. /\ Cardinality(Unaries') = Cardinality(Unaries) /\ Cardinality(Streaming') = Cardinality(Streaming)
      /\ Cardinality(Rechecking') = Cardinality(Rechecking) /\ Cardinality(Reading') = Cardinality(Reading) - 1
  BY <1>1, <1>2, <1>3, Holders, Holds
<1> QED BY <1>1, <1>3, <1>4, StepOf, Known, FiniteHolders

\* The call takes the result, or its context ends.
LEMMA AwaitResultStep ==
    ASSUME ConnectInv, NEW c \in Requests, C!AwaitResult(c)
    PROVE  ConnectInv'
<1>1. /\ call[c].pc = "wait" /\ snap' = snap /\ unary' = unary /\ streams' = streams /\ csem' = csem
      /\ config' = config /\ view' = view
  BY Zenon DEF C!AwaitResult
<1>2. ASSUME call[c].cluster # 0, call' = [call EXCEPT ![c].pc = "release"]
      PROVE  Only(c) /\ CallType(c)' /\ CallInv(c)' /\ call'[c].pc = "release" /\ snap'[c] = snap[c]
  <2>1. Only(c) /\ CallType(c)' /\ CallInv(c)'
    BY <1>1, <1>2, GoesOn, Known DEF Only, CallType, CallInv
  <2>2. call'[c].pc = "release" /\ snap'[c] = snap[c]
    BY Zenon, <1>1, <1>2, GoesOn
  <2> QED BY Zenon, <2>1, <2>2
<1>3. ASSUME call[c].ctx # "live", call' = [call EXCEPT ![c].pc = "release", ![c].err = call[c].ctx]
      PROVE  Only(c) /\ CallType(c)' /\ CallInv(c)' /\ call'[c].pc = "release" /\ snap'[c] = snap[c]
  <2>1. Only(c) /\ CallType(c)' /\ CallInv(c)'
    BY <1>1, <1>3, Fails, Known, ConnectAssumption DEF Only, CallType, CallInv
  <2>2. call'[c].pc = "release" /\ snap'[c] = snap[c]
    BY Zenon, <1>1, <1>3, Fails
  <2> QED BY Zenon, <2>1, <2>2
<1>4. Only(c) /\ CallType(c)' /\ CallInv(c)' /\ call'[c].pc = "release" /\ snap'[c] = snap[c]
  BY Zenon, <1>2, <1>3 DEF C!AwaitResult
<1>5. /\ Cardinality(Unaries') = Cardinality(Unaries) /\ Cardinality(Streaming') = Cardinality(Streaming)
      /\ Cardinality(Rechecking') = Cardinality(Rechecking) /\ Cardinality(Reading') = Cardinality(Reading)
  BY <1>1, <1>4, Holders, Holds
<1> QED BY <1>1, <1>4, <1>5, StepOf, Known, FiniteHolders

\* A unary RPC and a stream give their slots back.
LEMMA ReleaseUnaryStep ==
    ASSUME ConnectInv, NEW c \in Requests, C!ReleaseUnary(c)
    PROVE  ConnectInv'
<1>1. /\ call[c].pc = "release" /\ snap' = snap /\ unary' = unary - 1 /\ streams' = streams /\ csem' = csem
      /\ config' = config /\ view' = view /\ call' = [call EXCEPT ![c].pc = "reply"]
  BY Zenon DEF C!ReleaseUnary
<1>2. Only(c) /\ CallType(c)' /\ CallInv(c)'
  BY <1>1, GoesOn, Known DEF Only, CallType, CallInv
<1>3. call'[c].pc = "reply" /\ snap'[c] = snap[c]
  BY Zenon, <1>1, GoesOn
<1>4. /\ Cardinality(Unaries') = Cardinality(Unaries) - 1 /\ Cardinality(Streaming') = Cardinality(Streaming)
      /\ Cardinality(Rechecking') = Cardinality(Rechecking) /\ Cardinality(Reading') = Cardinality(Reading)
  BY <1>1, <1>2, <1>3, Holders, Holds
<1> QED BY <1>1, <1>2, <1>4, StepOf, Known, FiniteHolders

LEMMA StreamEndsStep ==
    ASSUME ConnectInv, NEW c \in Requests, C!StreamEnds(c)
    PROVE  ConnectInv'
<1>1. /\ call[c].pc = "streaming" /\ snap' = snap /\ unary' = unary /\ streams' = streams - 1 /\ csem' = csem
      /\ config' = config /\ view' = view /\ call' = [call EXCEPT ![c].pc = "reply"]
  BY Zenon DEF C!StreamEnds
<1>2. Only(c) /\ CallType(c)' /\ CallInv(c)'
  BY <1>1, GoesOn, Known DEF Only, CallType, CallInv
<1>3. call'[c].pc = "reply" /\ snap'[c] = snap[c]
  BY Zenon, <1>1, GoesOn
<1>4. /\ Cardinality(Unaries') = Cardinality(Unaries) /\ Cardinality(Streaming') = Cardinality(Streaming) - 1
      /\ Cardinality(Rechecking') = Cardinality(Rechecking) /\ Cardinality(Reading') = Cardinality(Reading)
  BY <1>1, <1>2, <1>3, Holders, Holds
<1> QED BY <1>1, <1>2, <1>4, StepOf, Known, FiniteHolders

\* The client has its answer.
LEMMA ReplyStep ==
    ASSUME ConnectInv, NEW c \in Requests, C!Reply(c)
    PROVE  ConnectInv'
<1>1. /\ call[c].pc = "reply" /\ snap' = snap /\ unary' = unary /\ streams' = streams /\ csem' = csem
      /\ config' = config /\ view' = view /\ call' = [call EXCEPT ![c] = C!NoCall]
  BY Zenon DEF C!Reply
<1>2. Only(c) /\ call'[c] = C!NoCall /\ snap'[c] = snap[c]
  BY <1>1, Known DEF Only
<1>3. CallType(c)' /\ CallInv(c)' /\ call'[c].pc = "none"
  BY <1>1, <1>2, Known DEF CallType, CallInv, CallFields, C!NoCall
<1>4. /\ Cardinality(Unaries') = Cardinality(Unaries) /\ Cardinality(Streaming') = Cardinality(Streaming)
      /\ Cardinality(Rechecking') = Cardinality(Rechecking) /\ Cardinality(Reading') = Cardinality(Reading)
  BY <1>1, <1>2, <1>3, Holders, Holds
<1> QED BY <1>1, <1>2, <1>3, <1>4, StepOf, Known, FiniteHolders


\* Configurations and views only follow each other.
LEMMA WorldStep ==
    ASSUME ConnectInv, call' = call, snap' = snap, unary' = unary, streams' = streams, csem' = csem,
           config' \in {config, config + 1}, view' \in {view, view + 1}
    PROVE  ConnectInv'
<1>1. config \in Nat /\ view \in Nat
  BY Zenon DEF ConnectInv, ConnectType
<1>2. config' \in Nat /\ view' \in Nat /\ config <= config' /\ view <= view'
  BY <1>1
<1>3. ASSUME NEW c \in Requests
      PROVE  CallType(c)' /\ CallInv(c)'
  BY <1>1, <1>2, Known DEF CallType, CallInv
<1>4. ConnectType'
  BY Zenon, <1>2, <1>3 DEF ConnectInv, ConnectType
<1>5. C!TokensAreOwned'
  BY Zenon DEF ConnectInv, C!TokensAreOwned
<1> QED BY Zenon, <1>3, <1>4, <1>5 DEF ConnectInv

\* A step of the Connect API.
LEMMA ConnectNextStep ==
    ASSUME ConnectInv, C!ConnectNext
    PROVE  ConnectInv'
<1>1. ASSUME NEW c \in Requests,
             C!Receive(c) \/ C!Handler(c) \/ C!Snapshotter(c) \/ C!ContextDone(c) \/ C!StreamEnds(c)
      PROVE  ConnectInv'
  <2>1. CASE C!Handler(c)
    BY Zenon, <2>1, WrapUnaryStep, WrapStreamingStep, GetStatusStep, AcquireSnapshotStep, RecheckStep, AwaitResultStep,
       ReleaseUnaryStep, ReplyStep DEF C!Handler
  <2>2. CASE C!Snapshotter(c)
    BY Zenon, <2>2, PeersStep, SendResultStep, ReleaseSnapshotStep DEF C!Snapshotter
  <2> QED BY Zenon, <1>1, <2>1, <2>2, ReceiveStep, ContextDoneStep, StreamEndsStep
<1>2. ASSUME C!UpdateSnapshot PROVE ConnectInv'
  BY <1>2, WorldStep DEF C!UpdateSnapshot
<1>3. ASSUME C!ClusterChanges PROVE ConnectInv'
  BY <1>3, WorldStep DEF C!ClusterChanges
<1>4. ASSUME C!Busy PROVE ConnectInv'
  BY <1>4, WorldStep DEF C!Busy
<1> QED BY Zenon, <1>1, <1>2, <1>3, <1>4 DEF C!ConnectNext

\* Nothing happens in it.
LEMMA ConnectStays ==
    ASSUME ConnectInv, UNCHANGED connectVars
    PROVE  ConnectInv'
BY WorldStep DEF connectVars

LEMMA ConnectStarts == C!ConnectInit => ConnectInv
<1> SUFFICES ASSUME C!ConnectInit PROVE ConnectInv
  OBVIOUS
<1>1. ASSUME NEW c \in Requests
      PROVE  CallType(c) /\ CallInv(c) /\ call[c].pc = "none" /\ snap[c].pc = "none"
  BY DEF C!ConnectInit, C!NoCall, CallType, CallInv, CallFields
<1>2. ConnectType
  BY <1>1 DEF C!ConnectInit, ConnectType
<1>3. Unaries = {} /\ Streaming = {} /\ Rechecking = {} /\ Reading = {}
  BY <1>1 DEF Unaries, Streaming, Rechecking, Reading
<1>4. Cardinality({}) = 0
  BY FS_EmptySet
<1>5. unary = 0 /\ streams = 0 /\ csem = 0
  BY Zenon DEF C!ConnectInit
<1>6. 0 = 0 + 0 /\ 0 <= 1 /\ 0 <= Unary /\ 0 <= Streams
  BY ConnectAssumption
<1>7. C!TokensAreOwned
  BY Zenon, <1>3, <1>4, <1>5, <1>6, SameCount DEF C!TokensAreOwned, Unaries, Streaming, Rechecking, Reading
<1> QED BY Zenon, <1>1, <1>2, <1>7 DEF ConnectInv

\* The tokens are owned and the answers fresh.
LEMMA ConnectGood == ConnectInv => C!TokensAreOwned /\ C!AnswersAreFresh
BY Zenon DEF ConnectInv, CallInv, C!AnswersAreFresh

-----------------------------------------------------------------------------
(* The HTTP API *)

ReqFields == {"op", "q", "p", "pc", "slot", "late", "code", "payload", "changed", "since", "seen", "known"}

\* A request has its fields.  It has a slot only after the limit.
ReqType(r) ==
    /\ DOMAIN req[r] = ReqFields
    /\ req[r].slot \in BOOLEAN /\ req[r].late \in BOOLEAN /\ req[r].changed \in BOOLEAN /\ req[r].since \in Nat
    /\ req[r].pc \in {"idle", "limit"} => req[r].slot = FALSE

\* It has seen no configuration that was replaced when it came, and lists alerts of one.
SeenInv(r) ==
    /\ req[r].since <= api.config
    /\ \A g \in req[r].seen : g >= req[r].since
    /\ req[r].pc = "answer" /\ req[r].op = "getAlerts" /\ req[r].code = 200 =>
          req[r].payload.receivers = req[r].payload.labels

\* The valid alerts of a POST are stored.
Taken(r) == \A i \in ValidAlerts(req[r].p.body) : removeEmptyLabels(req[r].p.body[i].labels) \in alerts

\* It has changed something only with the answer to a write that was accepted, or to a POST
\* of alerts some of which are not valid; the valid ones are stored.
WroteInv(r) ==
    /\ req[r].pc # "answer" => req[r].changed = FALSE
    /\ req[r].pc = "answer" /\ req[r].changed = TRUE /\ req[r].code \in {400, 404, 422, 503} =>
          req[r].op = "postAlerts" /\ req[r].code = 400
    /\ req[r].pc = "answer" /\ req[r].op = "postAlerts" /\ req[r].code \in {200, 400} => Taken(r)

\* The silences that were ever there.
Ever == DOMAIN sils \cup ended

\* What its client knew is there or has ended, and so is what it is about to tell.
FoundInv(r) ==
    /\ req[r].known \subseteq Ever
    /\ req[r].pc = "answer" /\ req[r].op = "postSilences" /\ req[r].code = 200 => req[r].payload \in Ever
    /\ req[r].pc = "answer" /\ req[r].op \in {"getSilence", "deleteSilence"} /\ req[r].code = 404
         /\ req[r].p.silenceID \in req[r].known => req[r].p.silenceID \in ended
    /\ req[r].pc = "answer" /\ req[r].op = "getSilences" /\ req[r].code = 200
         /\ req[r].p["active"] /\ req[r].p["expired"] /\ req[r].p["pending"] =>
         req[r].known \subseteq req[r].payload \cup ended

ReqInv(r) == ReqType(r) /\ SeenInv(r) /\ WroteInv(r) /\ FoundInv(r)

\* The configuration is replaced as a whole; a silence that is expired has ended, and
\* what clients were told is there or has ended.
WorldInv ==
    /\ DOMAIN api = {"config", "route", "status"} /\ api.config \in Nat /\ api.route = api.config /\ api.status = api.config
    /\ now \in Int
    /\ \A u \in DOMAIN sils : "endsAt" \in DOMAIN sils[u] /\ (now > sils[u].endsAt => u \in ended)
    /\ told \subseteq Ever

Holding == {r \in Requests : req[r].slot}

ApiInv ==
    /\ DOMAIN req = Requests /\ WorldInv
    /\ \A r \in Requests : ReqInv(r)
    /\ ApiSlotsOwned

\* Configurations follow each other; alerts and ended silences stay.
Grows == api.config <= api'.config /\ alerts \subseteq alerts' /\ Ever \subseteq Ever' /\ ended \subseteq ended'

\* At most the request r changes.
OnlyReq(r) == DOMAIN req' = Requests /\ \A d \in Requests : d # r => req'[d] = req[d]

-----------------------------------------------------------------------------

\* What the others know stays true.
LEMMA Keeps ==
    ASSUME NEW d \in Requests, ReqInv(d), WorldInv, WorldInv', Grows, req'[d] = req[d]
    PROVE  ReqInv(d)'
<1>1. ReqType(d)'
  BY Zenon DEF ReqInv, ReqType
<1>2. SeenInv(d)'
  BY DEF ReqInv, ReqType, SeenInv, WorldInv, Grows
<1>3. WroteInv(d)'
  <2>1. Taken(d) => Taken(d)'
    BY Zenon DEF Grows, Taken
  <2> QED BY <2>1 DEF ReqInv, WroteInv
<1>4. FoundInv(d)'
  BY DEF ReqInv, FoundInv, Grows
<1> QED BY Zenon, <1>1, <1>2, <1>3, <1>4 DEF ReqInv

\* A step of the request r that keeps the count of the slots keeps the invariant.
LEMMA ReqStep ==
    ASSUME ApiInv, NEW r \in Requests, OnlyReq(r), ReqInv(r)', WorldInv', Grows, sem' \in Int,
           sem' - sem = Cardinality(Holding') - Cardinality(Holding), sem' <= Limit
    PROVE  ApiInv'
<1>1. \A d \in Requests : ReqInv(d)'
  BY Zenon, Keeps DEF ApiInv, OnlyReq
<1>2. Cardinality(Holding) \in Nat /\ Cardinality(Holding') \in Nat
  BY Parts DEF Holding
<1>3. sem = Cardinality(Holding)
  BY Zenon DEF ApiInv, ApiSlotsOwned, Holding
<1>4. sem' = Cardinality(Holding')
  BY <1>2, <1>3
<1>5. ApiSlotsOwned'
  BY Zenon, <1>4 DEF ApiSlotsOwned, Holding
<1> QED BY Zenon, <1>1, <1>5 DEF ApiInv, OnlyReq

\* The invariant, for one request.
LEMMA KnownReq ==
    ASSUME ApiInv, NEW r \in Requests
    PROVE  /\ ReqInv(r) /\ WorldInv /\ DOMAIN req = Requests /\ sem \in Nat /\ sem <= Limit /\ Limit \in Nat
           /\ sem = Cardinality(Holding) /\ IsFiniteSet(Holding) /\ Holding \subseteq Requests
           /\ ReqType(r) /\ SeenInv(r) /\ WroteInv(r) /\ FoundInv(r)
<1>1. Holding \subseteq Requests
  BY Zenon DEF Holding
<1>2. sem = Cardinality(Holding)
  BY Zenon DEF ApiInv, ApiSlotsOwned, Holding
<1> QED BY Zenon, <1>1, <1>2, Parts, ApiAssumption DEF ApiInv, ApiSlotsOwned, ReqInv

\* The stores, the clock and the configuration are left alone.
LEMMA Quiet ==
    ASSUME ApiInv, UNCHANGED stores, UNCHANGED world, UNCHANGED aux
    PROVE  WorldInv' /\ Grows /\ api' = api /\ alerts' = alerts /\ sils' = sils /\ now' = now /\ told' = told
           /\ ended' = ended /\ Ever' = Ever
<1>1. api' = api /\ alerts' = alerts /\ sils' = sils /\ now' = now /\ told' = told /\ ended' = ended
  BY DEF stores, world, aux
<1>2. WorldInv
  BY Zenon DEF ApiInv
<1>3. WorldInv' /\ Ever' = Ever
  BY Zenon, <1>1, <1>2 DEF WorldInv, Ever
<1>4. Grows
  BY <1>1, <1>2, <1>3 DEF WorldInv, Grows
<1> QED BY Zenon, <1>1, <1>3, <1>4

\* A step of r that keeps its slot and the number of tokens.
LEMMA SlotKept ==
    ASSUME ApiInv, NEW r \in Requests, OnlyReq(r), ReqInv(r)', WorldInv', Grows, sem' = sem, req'[r].slot = req[r].slot
    PROVE  ApiInv'
<1>1. Holding' = Holding
  BY Zenon DEF Holding, OnlyReq
<1>2. sem' - sem = Cardinality(Holding') - Cardinality(Holding)
  BY <1>1, KnownReq, Parts
<1>3. sem' \in Int /\ sem' <= Limit
  BY KnownReq
<1> QED BY Zenon, <1>2, <1>3, ReqStep

LEMMA HasFields ==
    ASSUME ApiInv, NEW r \in Requests
    PROVE  DOMAIN req = Requests /\ DOMAIN req[r] = ReqFields
BY Zenon DEF ApiInv, ReqInv, ReqType

\* The request r goes on to the step pc with what is given; the rest of it stays.
Moved(r, pc, code, payload, changed, seen) ==
    /\ OnlyReq(r) /\ DOMAIN req'[r] = ReqFields
    /\ req'[r].pc = pc /\ req'[r].code = code /\ req'[r].payload = payload
    /\ req'[r].changed = changed /\ req'[r].seen = seen
    /\ req'[r].op = req[r].op /\ req'[r].p = req[r].p /\ req'[r].slot = req[r].slot /\ req'[r].late = req[r].late
    /\ req'[r].since = req[r].since /\ req'[r].known = req[r].known

\* The goroutine goes on to the step v.
LEMMA Goes ==
    ASSUME ApiInv, NEW r \in Requests, NEW v, Go(r, v)
    PROVE  Moved(r, v, req[r].code, req[r].payload, req[r].changed, req[r].seen)
<1>1. DOMAIN req = Requests /\ DOMAIN req[r] = ReqFields
  BY Zenon, HasFields
<1>2. OnlyReq(r) /\ req'[r] = [req[r] EXCEPT !.pc = v]
  BY <1>1 DEF OnlyReq, Answer, Go, Saw
<1>3. OnlyReq(r) /\ DOMAIN req'[r] = ReqFields
  BY <1>1, <1>2 DEF ReqFields
<1> QED BY <1>1, <1>2, <1>3 DEF ReqFields, Moved

\* It has the answer of code v and payload w.
LEMMA GetsAnswer ==
    ASSUME ApiInv, NEW r \in Requests, NEW v, NEW w, Answer(r, v, w)
    PROVE  Moved(r, "answer", v, w, req[r].changed, req[r].seen)
<1>1. DOMAIN req = Requests /\ DOMAIN req[r] = ReqFields
  BY Zenon, HasFields
<1>2. OnlyReq(r) /\ req'[r] = [req[r] EXCEPT !.pc = "answer", !.code = v, !.payload = w]
  BY <1>1 DEF OnlyReq, Answer, Go, Saw
<1>3. OnlyReq(r) /\ DOMAIN req'[r] = ReqFields
  BY <1>1, <1>2 DEF ReqFields
<1> QED BY <1>1, <1>2, <1>3 DEF ReqFields, Moved

\* It goes on to the step v and has seen parts of the configuration.
LEMMA Sees ==
    ASSUME ApiInv, NEW r \in Requests, NEW v, NEW parts, Saw(r, v, parts)
    PROVE  Moved(r, v, req[r].code, req[r].payload, req[r].changed, req[r].seen \cup {api[f] : f \in parts})
<1>1. DOMAIN req = Requests /\ DOMAIN req[r] = ReqFields
  BY Zenon, HasFields
<1>2. OnlyReq(r) /\ req'[r] = [req[r] EXCEPT !.pc = v, !.seen = @ \cup {api[f] : f \in parts}]
  BY <1>1 DEF OnlyReq, Answer, Go, Saw
<1>3. OnlyReq(r) /\ DOMAIN req'[r] = ReqFields
  BY <1>1, <1>2 DEF ReqFields
<1> QED BY <1>1, <1>2, <1>3 DEF ReqFields, Moved

\* It answers with what it has seen.
LEMMA Shows ==
    ASSUME ApiInv, NEW r \in Requests, NEW w, NEW g, 
           req' = [req EXCEPT ![r].pc = "answer", ![r].code = 200, ![r].payload = w, ![r].seen = g]
    PROVE  Moved(r, "answer", 200, w, req[r].changed, g)
<1>1. DOMAIN req = Requests /\ DOMAIN req[r] = ReqFields
  BY Zenon, HasFields
<1>2. OnlyReq(r) /\ req'[r] = [req[r] EXCEPT !.pc = "answer", !.code = 200, !.payload = w, !.seen = g]
  BY <1>1 DEF OnlyReq, Answer, Go, Saw
<1>3. OnlyReq(r) /\ DOMAIN req'[r] = ReqFields
  BY <1>1, <1>2 DEF ReqFields
<1> QED BY <1>1, <1>2, <1>3 DEF ReqFields, Moved

\* It answers after a write of alerts or silences.
LEMMA Writes ==
    ASSUME ApiInv, NEW r \in Requests, NEW v, NEW w, 
           req' = [req EXCEPT ![r].pc = "answer", ![r].code = v, ![r].changed = w]
    PROVE  Moved(r, "answer", v, req[r].payload, w, req[r].seen)
<1>1. DOMAIN req = Requests /\ DOMAIN req[r] = ReqFields
  BY Zenon, HasFields
<1>2. OnlyReq(r) /\ req'[r] = [req[r] EXCEPT !.pc = "answer", !.code = v, !.changed = w]
  BY <1>1 DEF OnlyReq, Answer, Go, Saw
<1>3. OnlyReq(r) /\ DOMAIN req'[r] = ReqFields
  BY <1>1, <1>2 DEF ReqFields
<1> QED BY <1>1, <1>2, <1>3 DEF ReqFields, Moved

\* A step that leaves everything but the request alone.
Alone == sem' = sem /\ UNCHANGED stores /\ UNCHANGED world /\ UNCHANGED aux

LEMMA AloneStep ==
    ASSUME ApiInv, NEW r \in Requests, OnlyReq(r), Alone, req'[r].slot = req[r].slot,
           ReqType(r)', SeenInv(r)', WroteInv(r)', FoundInv(r)'
    PROVE  ApiInv'
BY Zenon, Quiet, SlotKept DEF Alone, ReqInv

\* A handler that has not answered yet may go on so, or answer so: it shows one configuration
\* that was not replaced before, and says that a silence is missing only if it is.
MayMove(r, v, code, w, seen) ==
    /\ req[r].pc # "answer" /\ v \notin {"idle", "limit"}
    /\ \A h \in seen : h >= req[r].since
    /\ v = "answer" /\ req[r].op = "getAlerts" /\ code = 200 => w.receivers = w.labels
    /\ v = "answer" => ~(req[r].op = "postAlerts" /\ code \in {200, 400}) /\ ~(req[r].op = "postSilences" /\ code = 200)
    /\ v = "answer" /\ code = 404 /\ req[r].op \in {"getSilence", "deleteSilence"} => req[r].p.silenceID \notin DOMAIN sils
    /\ v = "answer" /\ code = 200 /\ req[r].op = "getSilences" /\ req[r].p["active"] /\ req[r].p["expired"]
         /\ req[r].p["pending"] => DOMAIN sils \subseteq w

\* Then the invariant stays.
LEMMA MovedStep ==
    ASSUME ApiInv, NEW r \in Requests, NEW v, NEW code, NEW w, NEW seen, Moved(r, v, code, w, req[r].changed, seen), Alone,
           MayMove(r, v, code, w, seen)
    PROVE  ApiInv'
<1>1. api' = api /\ Ever' = Ever /\ ended' = ended
  BY Zenon, Quiet DEF Alone
<1>2. ReqType(r) /\ SeenInv(r) /\ WroteInv(r) /\ FoundInv(r)
  BY Zenon, KnownReq
<1>3. req[r].changed = FALSE
  BY Zenon, <1>2 DEF WroteInv, MayMove
<1>4. ReqType(r)'
  BY <1>2, <1>3 DEF ReqType, Moved, MayMove
<1>5. SeenInv(r)'
  BY <1>1, <1>2 DEF SeenInv, Moved, MayMove
<1>6. WroteInv(r)'
  BY <1>3 DEF WroteInv, Moved, MayMove
<1>7. FoundInv(r)'
  BY <1>1, <1>2 DEF FoundInv, Moved, Ever, MayMove
<1>8. OnlyReq(r) /\ req'[r].slot = req[r].slot
  BY Zenon DEF Moved
<1> QED BY Zenon, <1>4, <1>5, <1>6, <1>7, <1>8, AloneStep


\* What a request reads of the configuration was not replaced before it came.
LEMMA SeenFacts ==
    ASSUME ApiInv, NEW r \in Requests
    PROVE  /\ \A h \in req[r].seen : h >= req[r].since
           /\ api.config >= req[r].since /\ api.route = api.config /\ api.status = api.config
BY Zenon, KnownReq DEF SeenInv, ReqType, WorldInv

\* Refusals, and steps that read nothing.
LEMMA RefusedStep ==
    ASSUME ApiInv, NEW r \in Requests, NEW v \in {400, 500, 503}, Answer(r, v, Nil), Alone,
           req[r].pc # "answer", v = 400 => req[r].op # "postAlerts"
    PROVE  ApiInv'
<1>1. Moved(r, "answer", v, Nil, req[r].changed, req[r].seen)
  BY GetsAnswer
<1>2. \A h \in req[r].seen : h >= req[r].since
  BY Zenon, SeenFacts
<1>9. MayMove(r, "answer", v, Nil, req[r].seen)
  BY <1>1, <1>2 DEF MayMove
<1> QED BY <1>1, <1>9, MovedStep

LEMMA GoesStep ==
    ASSUME ApiInv, NEW r \in Requests, NEW v \in {"bind", "set"}, Go(r, v), Alone, req[r].pc # "answer"
    PROVE  ApiInv'
<1>1. Moved(r, v, req[r].code, req[r].payload, req[r].changed, req[r].seen)
  BY Zenon, Goes
<1>2. \A h \in req[r].seen : h >= req[r].since
  BY Zenon, SeenFacts
<1>9. MayMove(r, v, req[r].code, req[r].payload, req[r].seen)
  BY <1>1, <1>2 DEF MayMove
<1> QED BY Zenon, <1>1, <1>9, MovedStep

\* A section of a handler reads a part of the configuration.
LEMMA SawStep ==
    ASSUME ApiInv, NEW r \in Requests, NEW v \in {"routes", "groups", "predict", "put"},
           NEW f \in {"config", "status"}, Saw(r, v, {f}), Alone, req[r].pc # "answer"
    PROVE  ApiInv'
<1> DEFINE seen == req[r].seen \cup {api[g] : g \in {f}}
<1>1. Moved(r, v, req[r].code, req[r].payload, req[r].changed, seen)
  BY Zenon, Sees
<1>2. \A h \in seen : h >= req[r].since
  BY SeenFacts
<1> HIDE DEF seen
<1>9. MayMove(r, v, req[r].code, req[r].payload, seen)
  BY <1>1, <1>2 DEF MayMove
<1> QED BY Zenon, <1>1, <1>9, MovedStep

\* It answers with parts of the configuration.
LEMMA ShownStep ==
    ASSUME ApiInv, NEW r \in Requests, NEW w, NEW seen, Alone,
           req' = [req EXCEPT ![r].pc = "answer", ![r].code = 200, ![r].payload = w, ![r].seen = seen],
           req[r].pc # "answer", seen \subseteq req[r].seen \cup {api.config, api.route, api.status},
           req[r].op \in {"getReceivers", "getStatus", "getAlerts", "getAlertGroups"},
           req[r].op = "getAlerts" => w.receivers = w.labels
    PROVE  ApiInv'
<1>1. Moved(r, "answer", 200, w, req[r].changed, seen)
  BY Zenon, Shows
<1>2. \A h \in seen : h >= req[r].since
  BY SeenFacts
<1>9. MayMove(r, "answer", 200, w, seen)
  BY <1>1, <1>2 DEF MayMove
<1> QED BY Zenon, <1>1, <1>9, MovedStep

\* The handlers that read.
LEMMA GetReceiversHandlerStep ==
    ASSUME ApiInv, NEW r \in Requests, getReceiversHandler(r)
    PROVE  ApiInv'
<1>1. Alone /\ req[r].op = "getReceivers" /\ req[r].pc = "handle"
  BY Zenon DEF getReceiversHandler, Handles, At, Alone
<1>2. req[r].pc # "answer"
  BY <1>1
<1>3. CASE ~Parses(req[r].p, {"receiver_matchers"})
  <2>1. Answer(r, 400, Nil)
    BY Zenon, <1>3 DEF getReceiversHandler
  <2> QED BY <1>1, <1>2, <2>1, RefusedStep
<1>4. CASE Parses(req[r].p, {"receiver_matchers"})
  <2> DEFINE w == api.config
             seen == {api.config}
  <2>1. req' = [req EXCEPT ![r].pc = "answer", ![r].code = 200, ![r].payload = w, ![r].seen = seen]
    BY Zenon, <1>4 DEF getReceiversHandler
  <2>2. seen \subseteq req[r].seen \cup {api.config, api.route, api.status}
    BY Zenon
  <2> HIDE DEF w, seen
  <2> QED BY Zenon, <1>1, <1>2, <2>1, <2>2, ShownStep
<1> QED BY Zenon, <1>3, <1>4

LEMMA GetStatusHandlerStep ==
    ASSUME ApiInv, NEW r \in Requests, getStatusHandler(r)
    PROVE  ApiInv'
<1>1. Alone /\ req[r].op = "getStatus" /\ req[r].pc = "handle"
  BY Zenon DEF getStatusHandler, Handles, At, Alone
<1>2. req[r].pc # "answer"
  BY <1>1
<1> DEFINE w == api.config
           seen == {api.config}
<1>3. req' = [req EXCEPT ![r].pc = "answer", ![r].code = 200, ![r].payload = w, ![r].seen = seen]
  BY Zenon DEF getStatusHandler
<1>4. seen \subseteq req[r].seen \cup {api.config, api.route, api.status}
  BY Zenon
<1> HIDE DEF w, seen
<1> QED BY Zenon, <1>1, <1>2, <1>3, <1>4, ShownStep

LEMMA GetAlertsHandlerStep ==
    ASSUME ApiInv, NEW r \in Requests, getAlertsHandler(r)
    PROVE  ApiInv'
<1>1. Alone /\ req[r].op = "getAlerts" /\ req[r].pc = "handle"
  BY Zenon DEF getAlertsHandler, Handles, At, Alone
<1>2. req[r].pc # "answer"
  BY <1>1
<1>3. CASE ~Parses(req[r].p, {"filter", "receiver", "receiver_matchers"})
  <2>1. Answer(r, 400, Nil)
    BY Zenon, <1>3 DEF getAlertsHandler
  <2> QED BY <1>1, <1>2, <2>1, RefusedStep
<1>4. CASE Saw(r, "routes", {"status"})
  BY <1>1, <1>2, <1>4, SawStep
<1> QED BY Zenon, <1>3, <1>4 DEF getAlertsHandler

LEMMA GetAlertsLoopStep ==
    ASSUME ApiInv, NEW r \in Requests, getAlertsLoop(r)
    PROVE  ApiInv'
<1>1. Alone /\ req[r].op = "getAlerts" /\ req[r].pc = "routes"
  BY Zenon DEF getAlertsLoop, Handles, At, Alone
<1>2. req[r].pc # "answer"
  BY <1>1
<1>3. CASE Answer(r, 500, Nil)
  BY <1>1, <1>2, <1>3, RefusedStep
<1>4. CASE req' = [req EXCEPT ![r].pc = "answer", ![r].code = 200,
                              ![r].payload = [alerts |-> alerts, receivers |-> api.route, labels |-> api.config],
                              ![r].seen = @ \cup {api.route, api.config}]
  <2> DEFINE w == [alerts |-> alerts, receivers |-> api.route, labels |-> api.config]
             seen == req[r].seen \cup {api.route, api.config}
  <2>1. req' = [req EXCEPT ![r].pc = "answer", ![r].code = 200, ![r].payload = w, ![r].seen = seen]
    <3>1. DOMAIN req = Requests /\ DOMAIN req[r] = ReqFields
      BY Zenon, HasFields
    <3> QED BY <1>4, <3>1 DEF ReqFields
  <2>2. seen \subseteq req[r].seen \cup {api.config, api.route, api.status}
    BY Zenon
  <2>3. w.receivers = w.labels
    BY SeenFacts
  <2> HIDE DEF w, seen
  <2> QED BY Zenon, <1>1, <1>2, <2>1, <2>2, <2>3, ShownStep
<1> QED BY Zenon, <1>3, <1>4 DEF getAlertsLoop

LEMMA GetAlertGroupsHandlerStep ==
    ASSUME ApiInv, NEW r \in Requests, getAlertGroupsHandler(r)
    PROVE  ApiInv'
<1>1. Alone /\ req[r].op = "getAlertGroups" /\ req[r].pc = "handle"
  BY Zenon DEF getAlertGroupsHandler, Handles, At, Alone
<1>2. req[r].pc # "answer"
  BY <1>1
<1>3. CASE ~Parses(req[r].p, {"filter", "receiver", "receiver_matchers"})
  <2>1. Answer(r, 400, Nil)
    BY Zenon, <1>3 DEF getAlertGroupsHandler
  <2> QED BY <1>1, <1>2, <2>1, RefusedStep
<1>4. CASE Saw(r, "groups", {"config"})
  BY <1>1, <1>2, <1>4, SawStep
<1> QED BY Zenon, <1>3, <1>4 DEF getAlertGroupsHandler

LEMMA GetAlertGroupsGroupsStep ==
    ASSUME ApiInv, NEW r \in Requests, getAlertGroupsGroups(r)
    PROVE  ApiInv'
<1>1. Alone /\ req[r].op = "getAlertGroups" /\ req[r].pc = "groups"
  BY Zenon DEF getAlertGroupsGroups, Handles, At, Alone
<1>2. req[r].pc # "answer"
  BY <1>1
<1>3. CASE Answer(r, 500, Nil)
  BY <1>1, <1>2, <1>3, RefusedStep
<1>4. CASE Saw(r, "predict", {"status"})
  BY <1>1, <1>2, <1>4, SawStep
<1> QED BY Zenon, <1>3, <1>4 DEF getAlertGroupsGroups

LEMMA GetAlertGroupsPredictStep ==
    ASSUME ApiInv, NEW r \in Requests, getAlertGroupsPredict(r)
    PROVE  ApiInv'
<1>1. Alone /\ req[r].op = "getAlertGroups" /\ req[r].pc = "predict"
  BY Zenon DEF getAlertGroupsPredict, Handles, At, Alone
<1>2. req[r].pc # "answer"
  BY <1>1
<1> DEFINE seen == req[r].seen \cup {api.status}
<1>3. req' = [req EXCEPT ![r].pc = "answer", ![r].code = 200, ![r].payload = alerts, ![r].seen = seen]
  <2>1. DOMAIN req = Requests /\ DOMAIN req[r] = ReqFields
    BY Zenon, HasFields
  <2> QED BY <2>1 DEF ReqFields, getAlertGroupsPredict
<1>4. seen \subseteq req[r].seen \cup {api.config, api.route, api.status}
  BY Zenon
<1> HIDE DEF seen
<1> QED BY Zenon, <1>1, <1>2, <1>3, <1>4, ShownStep

LEMMA PostAlertsHandlerStep ==
    ASSUME ApiInv, NEW r \in Requests, postAlertsHandler(r)
    PROVE  ApiInv'
<1>1. Alone /\ req[r].op = "postAlerts" /\ req[r].pc = "handle"
  BY Zenon DEF postAlertsHandler, Handles, At, Alone
<1>2. req[r].pc # "answer"
  BY <1>1
<1>3. Saw(r, "put", {"config"})
  BY Zenon DEF postAlertsHandler
<1> QED BY <1>1, <1>2, <1>3, SawStep

LEMMA PostSilencesHandlerStep ==
    ASSUME ApiInv, NEW r \in Requests, postSilencesHandler(r)
    PROVE  ApiInv'
<1>1. Alone /\ req[r].op = "postSilences" /\ req[r].pc = "handle"
  BY Zenon DEF postSilencesHandler, Handles, At, Alone
<1>2. req[r].pc # "answer"
  BY <1>1
<1>3. CASE Answer(r, 400, Nil)
  BY <1>1, <1>2, <1>3, RefusedStep
<1>4. CASE Go(r, "set")
  BY <1>1, <1>2, <1>4, GoesStep
<1> QED BY Zenon, <1>3, <1>4 DEF postSilencesHandler

LEMMA GetSilenceHandlerStep ==
    ASSUME ApiInv, NEW r \in Requests, getSilenceHandler(r)
    PROVE  ApiInv'
<1>1. Alone /\ req[r].op = "getSilence" /\ req[r].pc = "handle"
  BY Zenon DEF getSilenceHandler, Handles, At, Alone
<1>2. req[r].pc # "answer"
  BY <1>1
<1>3. \A h \in req[r].seen : h >= req[r].since
  BY Zenon, SeenFacts
<1>4. CASE req[r].p.silenceID \in DOMAIN sils
  <2>1. Moved(r, "answer", 200, req[r].p.silenceID, req[r].changed, req[r].seen)
    BY Zenon, <1>4, GetsAnswer DEF getSilenceHandler
  <2>9. MayMove(r, "answer", 200, req[r].p.silenceID, req[r].seen)
    BY <1>1, <1>2, <1>3, <2>1 DEF MayMove
  <2> QED BY Zenon, <1>1, <2>1, <2>9, MovedStep
<1>5. CASE req[r].p.silenceID \notin DOMAIN sils
  <2>1. Moved(r, "answer", 404, Nil, req[r].changed, req[r].seen)
    BY Zenon, <1>5, GetsAnswer DEF getSilenceHandler
  <2>9. MayMove(r, "answer", 404, Nil, req[r].seen)
    BY <1>1, <1>2, <1>3, <1>5, <2>1 DEF MayMove
  <2> QED BY Zenon, <1>1, <2>1, <2>9, MovedStep
<1> QED BY Zenon, <1>4, <1>5

LEMMA GetSilencesHandlerStep ==
    ASSUME ApiInv, NEW r \in Requests, getSilencesHandler(r)
    PROVE  ApiInv'
<1>1. Alone /\ req[r].op = "getSilences" /\ req[r].pc = "handle"
  BY Zenon DEF getSilencesHandler, Handles, At, Alone
<1>2. req[r].pc # "answer"
  BY <1>1
<1>3. CASE ~Parses(req[r].p, {"filter"})
  <2>1. Answer(r, 400, Nil)
    BY Zenon, <1>3 DEF getSilencesHandler
  <2> QED BY <1>1, <1>2, <2>1, RefusedStep
<1>4. CASE Parses(req[r].p, {"filter"})
  <2> DEFINE states == {s \in {"active", "expired", "pending"} : req[r].p[s]}
             w == {u \in DOMAIN sils : getState(sils[u]) \in states}
  <2>1. Moved(r, "answer", 200, w, req[r].changed, req[r].seen)
    BY Zenon, <1>4, GetsAnswer DEF getSilencesHandler
  <2>2. ASSUME req[r].p["active"], req[r].p["expired"], req[r].p["pending"]
        PROVE  DOMAIN sils \subseteq w
    <3>1. \A u \in DOMAIN sils : getState(sils[u]) \in {"active", "expired", "pending"}
      BY Zenon DEF getState
    <3> QED BY Zenon, <2>2, <3>1
  <2>3. \A h \in req[r].seen : h >= req[r].since
    BY Zenon, SeenFacts
  <2> HIDE DEF w
  <2>9. MayMove(r, "answer", 200, w, req[r].seen)
    BY <1>1, <1>2, <2>1, <2>2, <2>3 DEF MayMove
  <2> QED BY Zenon, <1>1, <2>1, <2>9, MovedStep
<1> QED BY Zenon, <1>3, <1>4

\* A request gets or loses its slot.
LEMMA SlotMoves ==
    ASSUME ApiInv, NEW r \in Requests, OnlyReq(r)
    PROVE  /\ req'[r].slot = req[r].slot => Cardinality(Holding') = Cardinality(Holding)
           /\ req[r].slot = FALSE /\ req'[r].slot = TRUE => Cardinality(Holding') = Cardinality(Holding) + 1
           /\ req[r].slot = TRUE /\ req'[r].slot = FALSE => Cardinality(Holding') = Cardinality(Holding) - 1
<1>1. IsFiniteSet(Holding)
  BY Zenon, KnownReq
<1>2. ASSUME req'[r].slot = req[r].slot PROVE Holding' = Holding
  BY Zenon, <1>2 DEF Holding, OnlyReq
<1>3. ASSUME req[r].slot = FALSE, req'[r].slot = TRUE PROVE r \notin Holding /\ Holding' = Holding \cup {r}
  BY <1>3 DEF Holding, OnlyReq
<1>4. ASSUME req[r].slot = TRUE, req'[r].slot = FALSE PROVE r \in Holding /\ Holding' = Holding \ {r}
  BY <1>4 DEF Holding, OnlyReq
<1>5. ASSUME req[r].slot = FALSE, req'[r].slot = TRUE PROVE Cardinality(Holding') = Cardinality(Holding) + 1
  BY Zenon, <1>1, <1>3, <1>5, Gains
<1>6. ASSUME req[r].slot = TRUE, req'[r].slot = FALSE PROVE Cardinality(Holding') = Cardinality(Holding) - 1
  BY Zenon, <1>1, <1>4, <1>6, Loses
<1> QED BY Zenon, <1>2, <1>5, <1>6

\* A request comes.
LEMMA ArriveStep ==
    ASSUME ApiInv, NEW r \in Requests, NEW ops, Arrive(r, ops)
    PROVE  ApiInv'
<1>1. Alone /\ req[r].pc = "idle"
  BY Zenon DEF Arrive, Alone
<1>2. PICK op \in ops : \E w \in Choices(op) : req' = [req EXCEPT ![r] =
        [Idle EXCEPT !.op = HandlerFor(Client(op).method, Client(op).path), !.q = w, !.pc = "limit",
                     !.since = api.config, !.known = IF op = "postSilences" THEN {} ELSE told]]
  BY Zenon DEF Arrive
<1>a. PICK w \in Choices(op) : req' = [req EXCEPT ![r] =
        [Idle EXCEPT !.op = HandlerFor(Client(op).method, Client(op).path), !.q = w, !.pc = "limit",
                     !.since = api.config, !.known = IF op = "postSilences" THEN {} ELSE told]]
  BY Zenon, <1>2
<1> DEFINE h == HandlerFor(Client(op).method, Client(op).path)
           k == IF op = "postSilences" THEN {} ELSE told
<1>3. k \subseteq told
  BY Zenon
<1>4. req' = [req EXCEPT ![r] = [Idle EXCEPT !.op = h, !.q = w, !.pc = "limit", !.since = api.config, !.known = k]]
  BY Zenon, <1>a
<1> HIDE DEF h, k
<1>5. OnlyReq(r) /\ req'[r] = [Idle EXCEPT !.op = h, !.q = w, !.pc = "limit", !.since = api.config, !.known = k]
  BY <1>4, HasFields DEF OnlyReq
<1>6. /\ DOMAIN req'[r] = ReqFields /\ req'[r].pc = "limit" /\ req'[r].slot = FALSE /\ req'[r].late = FALSE
      /\ req'[r].changed = FALSE /\ req'[r].since = api.config /\ req'[r].seen = {} /\ req'[r].known = k
  BY <1>5 DEF Idle, ReqFields
<1>7. api' = api /\ Ever' = Ever
  BY Zenon, <1>1, Quiet DEF Alone
<1>8. WorldInv /\ ReqType(r)
  BY Zenon, KnownReq
<1>b. api.config \in Nat
  BY Zenon, <1>8 DEF WorldInv
<1>c. ReqType(r)'
  BY Zenon, <1>6, <1>b DEF ReqType
<1>9. SeenInv(r)'
  BY <1>6, <1>7, <1>b DEF SeenInv
<1>10. WroteInv(r)'
  BY <1>6 DEF WroteInv
<1>11. FoundInv(r)'
  BY <1>3, <1>6, <1>7, <1>8 DEF FoundInv, WorldInv
<1>12. req'[r].slot = req[r].slot
  BY Zenon, <1>1, <1>6, <1>8 DEF ReqType
<1> QED BY Zenon, <1>1, <1>5, <1>9, <1>10, <1>11, <1>12, <1>c, AloneStep

\* The limit of concurrent GETs.
LEMMA LimitStep ==
    ASSUME ApiInv, NEW r \in Requests, concurrencyLimitHandler(r)
    PROVE  ApiInv'
<1>1. req[r].pc = "limit" /\ UNCHANGED stores /\ UNCHANGED world /\ UNCHANGED aux
  BY Zenon DEF concurrencyLimitHandler, At
<1>2. req[r].pc # "answer"
  BY <1>1
<1>3. CASE sem' = sem /\ Answer(r, 503, Nil)
  <2>1. Alone
    BY Zenon, <1>1, <1>3 DEF Alone
  <2> QED BY <1>2, <1>3, <2>1, RefusedStep
<1>4. CASE sem' = sem /\ Go(r, "bind")
  <2>1. Alone
    BY Zenon, <1>1, <1>4 DEF Alone
  <2> QED BY <1>2, <1>4, <2>1, GoesStep
<1>5. CASE sem < Limit /\ sem' = sem + 1 /\ req' = [req EXCEPT ![r].pc = "bind", ![r].slot = TRUE]
  <2>1. OnlyReq(r) /\ req'[r] = [req[r] EXCEPT !.pc = "bind", !.slot = TRUE] /\ DOMAIN req[r] = ReqFields
    BY Zenon, <1>5, HasFields DEF OnlyReq
  <2>2. /\ DOMAIN req'[r] = ReqFields /\ req'[r].pc = "bind" /\ req'[r].slot = TRUE /\ req'[r].late = req[r].late
        /\ req'[r].changed = req[r].changed /\ req'[r].since = req[r].since /\ req'[r].seen = req[r].seen
        /\ req'[r].known = req[r].known
    BY <2>1 DEF ReqFields
  <2>3. WorldInv' /\ Grows /\ api' = api /\ Ever' = Ever
    BY Zenon, <1>1, Quiet
  <2>4. ReqType(r) /\ SeenInv(r) /\ WroteInv(r) /\ FoundInv(r)
    BY Zenon, KnownReq
  <2>5. ReqType(r)' /\ SeenInv(r)' /\ req[r].slot = FALSE
    BY Zenon, <1>1, <2>2, <2>3, <2>4 DEF ReqType, SeenInv
  <2>6. WroteInv(r)'
    BY <1>2, <2>2, <2>4 DEF WroteInv
  <2>7. FoundInv(r)'
    BY <2>2, <2>3, <2>4 DEF FoundInv
  <2>8. Cardinality(Holding') = Cardinality(Holding) + 1
    BY Zenon, <2>1, <2>2, <2>5, SlotMoves
  <2>9. sem' \in Int /\ sem' - sem = Cardinality(Holding') - Cardinality(Holding) /\ sem' <= Limit
    BY <1>5, <2>8, KnownReq
  <2>10. ReqInv(r)'
    BY Zenon, <2>5, <2>6, <2>7 DEF ReqInv
  <2> QED BY Zenon, <2>1, <2>3, <2>9, <2>10, ReqStep
<1> QED BY Zenon, <1>3, <1>4, <1>5 DEF concurrencyLimitHandler

\* Parameters are bound, or the request is answered 422.
LEMMA ServeHTTPStep ==
    ASSUME ApiInv, NEW r \in Requests, ServeHTTP(r)
    PROVE  ApiInv'
<1> DEFINE b == BindRequest(req[r].op, req[r].q)
<1>1. /\ Alone /\ req[r].pc = "bind"
      /\ req' = IF Bound(b) THEN [req EXCEPT ![r].pc = "handle", ![r].p = b, ![r].q = Nil]
                ELSE [req EXCEPT ![r].pc = "answer", ![r].code = 422]
  BY Zenon DEF ServeHTTP, Alone, At
<1> HIDE DEF b
<1>2. api' = api /\ Ever' = Ever
  BY Zenon, <1>1, Quiet DEF Alone
<1>3. ReqType(r) /\ SeenInv(r) /\ WroteInv(r) /\ FoundInv(r) /\ DOMAIN req = Requests /\ DOMAIN req[r] = ReqFields
  BY Zenon, KnownReq, HasFields
<1> DEFINE Stays == /\ DOMAIN req'[r] = ReqFields /\ req'[r].slot = req[r].slot /\ req'[r].late = req[r].late
                    /\ req'[r].changed = req[r].changed /\ req'[r].since = req[r].since /\ req'[r].seen = req[r].seen
                    /\ req'[r].known = req[r].known /\ (req'[r].pc = "handle" \/ (req'[r].pc = "answer" /\ req'[r].code = 422))
<1>0. DOMAIN req = Requests /\ DOMAIN req[r] = ReqFields
  BY Zenon, HasFields
<1>a. ASSUME req' = [req EXCEPT ![r].pc = "handle", ![r].p = b, ![r].q = Nil]
      PROVE  OnlyReq(r) /\ Stays
  <2>1. OnlyReq(r) /\ req'[r] = [req[r] EXCEPT !.pc = "handle", !.p = b, !.q = Nil]
    BY <1>3, <1>a DEF OnlyReq
  <2>2. DOMAIN req'[r] = ReqFields /\ req'[r].pc = "handle"
    BY <1>0, <2>1 DEF ReqFields
  <2>3. /\ req'[r].slot = req[r].slot /\ req'[r].late = req[r].late /\ req'[r].changed = req[r].changed
        /\ req'[r].since = req[r].since /\ req'[r].seen = req[r].seen /\ req'[r].known = req[r].known
    BY <1>0, <2>1 DEF ReqFields
  <2> QED BY <2>1, <2>2, <2>3
<1>b. ASSUME req' = [req EXCEPT ![r].pc = "answer", ![r].code = 422]
      PROVE  OnlyReq(r) /\ Stays
  <2>1. OnlyReq(r) /\ req'[r] = [req[r] EXCEPT !.pc = "answer", !.code = 422]
    BY <1>3, <1>b DEF OnlyReq
  <2> QED BY <1>3, <2>1 DEF ReqFields
<1>4. OnlyReq(r)
  BY Zenon, <1>1, <1>a, <1>b
<1>5. Stays
  BY Zenon, <1>1, <1>a, <1>b
<1>6. ReqType(r)' /\ SeenInv(r)'
  BY <1>2, <1>3, <1>5 DEF ReqType, SeenInv
<1>7. WroteInv(r)'
  BY <1>1, <1>3, <1>5 DEF WroteInv
<1>8. FoundInv(r)'
  BY <1>2, <1>3, <1>5 DEF FoundInv
<1> QED BY Zenon, <1>1, <1>4, <1>5, <1>6, <1>7, <1>8, AloneStep

\* The client gets 503 from TimeoutHandler, the goroutine runs on.
LEMMA TimeoutStep ==
    ASSUME ApiInv, NEW r \in Requests, TimeoutHandler(r)
    PROVE  ApiInv'
<1>1. Alone /\ req' = [req EXCEPT ![r].late = TRUE, ![r].known = {}]
  BY Zenon DEF TimeoutHandler, Alone
<1>2. api' = api /\ Ever' = Ever /\ alerts' = alerts /\ ended' = ended
  BY Zenon, <1>1, Quiet DEF Alone
<1>3. ReqType(r) /\ SeenInv(r) /\ WroteInv(r) /\ FoundInv(r) /\ DOMAIN req = Requests /\ DOMAIN req[r] = ReqFields
  BY Zenon, KnownReq, HasFields
<1>4. OnlyReq(r) /\ req'[r] = [req[r] EXCEPT !.late = TRUE, !.known = {}]
  BY <1>1, <1>3 DEF OnlyReq
<1>5. /\ DOMAIN req'[r] = ReqFields /\ req'[r].pc = req[r].pc /\ req'[r].code = req[r].code /\ req'[r].op = req[r].op
      /\ req'[r].p = req[r].p /\ req'[r].payload = req[r].payload
      /\ req'[r].slot = req[r].slot /\ req'[r].late = TRUE
      /\ req'[r].changed = req[r].changed /\ req'[r].since = req[r].since /\ req'[r].seen = req[r].seen
      /\ req'[r].known = {}
  BY <1>3, <1>4 DEF ReqFields
<1>6. ReqType(r)' /\ SeenInv(r)'
  BY Zenon, <1>2, <1>3, <1>5 DEF ReqType, SeenInv
<1>7. Taken(r)' <=> Taken(r)
  BY Zenon, <1>2, <1>5 DEF Taken
<1>8. WroteInv(r)'
  BY <1>3, <1>5, <1>7 DEF WroteInv
<1>9. FoundInv(r)'
  BY <1>2, <1>3, <1>5 DEF FoundInv
<1> QED BY Zenon, <1>1, <1>4, <1>5, <1>6, <1>8, <1>9, AloneStep

\* The handler returns: the slot is free, and the client knows the silence it posted.
LEMMA ReturnStep ==
    ASSUME ApiInv, NEW r \in Requests, Return(r)
    PROVE  ApiInv'
<1> DEFINE t == IF ~req[r].late /\ req[r].op = "postSilences" /\ req[r].code = 200 THEN {req[r].payload} ELSE {}
<1>1. /\ req[r].pc = "answer" /\ sem' = (IF req[r].slot THEN sem - 1 ELSE sem) /\ told' = told \cup t
      /\ req' = [req EXCEPT ![r] = Idle] /\ ended' = ended /\ UNCHANGED stores /\ UNCHANGED world
  BY Zenon DEF Return, At
<1>2. api' = api /\ alerts' = alerts /\ sils' = sils /\ now' = now
  BY <1>1 DEF stores, world
<1>3. ReqType(r) /\ FoundInv(r) /\ WorldInv
  BY Zenon, KnownReq
<1>4. t \subseteq Ever
  BY Zenon, <1>1, <1>3 DEF FoundInv
<1> HIDE DEF t
<1>5. Ever' = Ever
  BY Zenon, <1>1, <1>2 DEF Ever
<1>6. told' \subseteq Ever'
  <2>1. told \subseteq Ever
    BY Zenon, <1>3 DEF WorldInv
  <2> QED BY Zenon, <1>1, <1>4, <1>5, <2>1
<1>7. WorldInv'
  BY Zenon, <1>1, <1>2, <1>3, <1>6 DEF WorldInv
<1>8. Grows
  BY <1>1, <1>2, <1>3, <1>5 DEF Grows, WorldInv
<1>9. OnlyReq(r) /\ req'[r] = Idle
  BY <1>1, HasFields DEF OnlyReq
<1>10. /\ DOMAIN req'[r] = ReqFields /\ req'[r].pc = "idle" /\ req'[r].slot = FALSE /\ req'[r].late = FALSE
       /\ req'[r].changed = FALSE /\ req'[r].since = 0 /\ req'[r].seen = {} /\ req'[r].known = {}
  BY <1>9 DEF Idle, ReqFields
<1>11. ReqType(r)'
  <2>1. req'[r].slot \in BOOLEAN /\ req'[r].late \in BOOLEAN /\ req'[r].changed \in BOOLEAN
    BY Zenon, <1>10
  <2>2. req'[r].since \in Nat
    BY <1>10
  <2> QED BY Zenon, <1>10, <2>1, <2>2 DEF ReqType
<1>12. SeenInv(r)'
  BY <1>2, <1>3, <1>10 DEF SeenInv, WorldInv
<1>13. WroteInv(r)' /\ FoundInv(r)'
  BY <1>10 DEF WroteInv, FoundInv
<1>14. ReqInv(r)'
  BY Zenon, <1>11, <1>12, <1>13 DEF ReqInv
<1>15. req[r].slot = TRUE => Cardinality(Holding') = Cardinality(Holding) - 1
  BY Zenon, <1>9, <1>10, SlotMoves
<1>16. req[r].slot = FALSE => Cardinality(Holding') = Cardinality(Holding)
  BY Zenon, <1>9, <1>10, SlotMoves
<1>17. sem \in Nat /\ sem <= Limit /\ Limit \in Nat /\ sem = Cardinality(Holding)
  BY Zenon, KnownReq
<1>18. sem' \in Int /\ sem' - sem = Cardinality(Holding') - Cardinality(Holding) /\ sem' <= Limit
  <2>1. CASE req[r].slot = TRUE
    BY <1>1, <1>15, <1>17, <2>1
  <2>2. CASE req[r].slot = FALSE
    BY <1>1, <1>16, <1>17, <2>2
  <2>3. req[r].slot = TRUE \/ req[r].slot = FALSE
    BY <1>3 DEF ReqType
  <2> QED BY Zenon, <2>1, <2>2, <2>3
<1> QED BY Zenon, <1>7, <1>8, <1>9, <1>14, <1>18, ReqStep

\* The valid alerts of a POST are put.
LEMMA PostAlertsPutStep ==
    ASSUME ApiInv, NEW r \in Requests, postAlertsPut(r)
    PROVE  ApiInv'
<1> DEFINE body == req[r].p.body
           code == IF ValidAlerts(body) = 1..Len(body) THEN 200 ELSE 400
           changed == alerts' # alerts
<1>1. /\ req[r].op = "postAlerts" /\ req[r].pc = "put"
      /\ alerts' = alerts \cup {removeEmptyLabels(body[i].labels) : i \in ValidAlerts(body)}
      /\ req' = [req EXCEPT ![r].pc = "answer", ![r].code = code, ![r].changed = changed]
      /\ UNCHANGED <<sem, sils>> /\ UNCHANGED world /\ UNCHANGED aux
  BY Zenon DEF postAlertsPut, Handles, At
<1>2. api' = api /\ sils' = sils /\ now' = now /\ told' = told /\ ended' = ended /\ sem' = sem
  BY <1>1 DEF world, aux
<1>a. code \in {200, 400}
  BY SMT
<1>b. changed \in BOOLEAN
  BY Zenon
<1>3. code \in {200, 400} /\ changed \in BOOLEAN
  BY Zenon, <1>a, <1>b
<1>4. \A i \in ValidAlerts(body) : removeEmptyLabels(body[i].labels) \in alerts'
  BY Zenon, <1>1
<1>5. alerts \subseteq alerts'
  BY Zenon, <1>1
<1>6. Moved(r, "answer", code, req[r].payload, changed, req[r].seen)
  <2> HIDE DEF code, changed
  <2> QED BY Zenon, <1>1, Writes
<1> HIDE DEF code, changed
<1>7. Taken(r)'
  <2>1. req'[r].p = req[r].p
    BY Zenon, <1>6 DEF Moved
  <2> QED BY Zenon, <1>4, <2>1 DEF Taken
<1> HIDE DEF body
<1>8. ReqType(r) /\ SeenInv(r) /\ FoundInv(r) /\ WorldInv
  BY Zenon, KnownReq
<1>9. Ever' = Ever
  BY Zenon, <1>2 DEF Ever
<1>10. WorldInv'
  BY Zenon, <1>2, <1>8, <1>9 DEF WorldInv
<1>11. Grows
  BY <1>2, <1>5, <1>8, <1>9 DEF Grows, WorldInv
<1>12. ReqType(r)'
  BY <1>3, <1>6, <1>8 DEF ReqType, Moved
<1>13. SeenInv(r)'
  BY Zenon, <1>1, <1>2, <1>6, <1>8 DEF SeenInv, Moved
<1>14. WroteInv(r)'
  BY <1>1, <1>3, <1>6, <1>7 DEF WroteInv, Moved
<1>15. FoundInv(r)'
  BY Zenon, <1>1, <1>6, <1>8, <1>9 DEF FoundInv, Moved
<1>16. OnlyReq(r) /\ req'[r].slot = req[r].slot
  BY Zenon, <1>6 DEF Moved
<1> QED BY Zenon, <1>2, <1>10, <1>11, <1>12, <1>13, <1>14, <1>15, <1>16, SlotKept DEF ReqInv

\* What Set returns: an error leaves the silences alone, and otherwise its id is stored; no
\* silence is lost.
SetGood(x) ==
    /\ x.code \in {200, 400, 404}
    /\ x.code # 200 => x.sils = sils
    /\ x.code = 200 => x.id \in DOMAIN x.sils
    /\ DOMAIN sils \subseteq DOMAIN x.sils
    /\ \A u \in DOMAIN x.sils : "endsAt" \in DOMAIN x.sils[u]

LEMMA SetResult ==
    ASSUME ApiInv, NEW b
    PROVE  SetGood(Set(b))
<1> DEFINE s == Content(b)
           known == b.id \in DOMAIN sils
           new == CHOOSE u \in UUIDs : u \notin DOMAIN sils \cup told \cup ended
           started == [s EXCEPT !.startsAt = IF @ < now THEN now ELSE @]
           old == IF known THEN [sils EXCEPT ![b.id] = Expired(@)] ELSE sils
           Wrong == [code |-> 404, id |-> Nil, sils |-> sils]
           Full == [code |-> 400, id |-> Nil, sils |-> sils]
           Same == [code |-> 200, id |-> b.id, sils |-> [sils EXCEPT ![b.id] = s]]
           New == [code |-> 200, id |-> new, sils |-> [u \in DOMAIN sils \cup {new} |-> IF u = new THEN started ELSE old[u]]]
<1>1. Set(b) = Wrong \/ (known /\ Set(b) = Same) \/ Set(b) = Full \/ Set(b) = New
  BY DEF Set
<1>2. \A u \in DOMAIN sils : "endsAt" \in DOMAIN sils[u]
  BY Zenon DEF ApiInv, WorldInv
<1>3. "endsAt" \in DOMAIN s
  BY DEF Content, Restricted
<1>4. "endsAt" \in DOMAIN started
  <2> HIDE DEF s
  <2> QED BY <1>3
<1>5. DOMAIN old = DOMAIN sils /\ \A u \in DOMAIN old : "endsAt" \in DOMAIN old[u]
  <2>1. \A x : "endsAt" \in DOMAIN x => "endsAt" \in DOMAIN Expired(x)
    BY DEF Expired
  <2>2. CASE known
    <3> DEFINE e == [sils EXCEPT ![b.id] = Expired(@)]
    <3>1. DOMAIN e = DOMAIN sils /\ \A u \in DOMAIN e : e[u] = sils[u] \/ e[u] = Expired(sils[u])
      BY <2>2
    <3>2. old = e
      BY Zenon, <2>2
    <3> HIDE DEF e, old
    <3> QED BY Zenon, <1>2, <2>1, <3>1, <3>2
  <2>3. CASE ~known
    BY Zenon, <1>2, <2>3
  <2> QED BY Zenon, <2>2, <2>3
<1> HIDE DEF s, new, started, old
<1>6. CASE Set(b) = Wrong \/ Set(b) = Full
  BY <1>2, <1>6 DEF SetGood
<1>7. CASE known /\ Set(b) = Same
  <2> DEFINE e == [sils EXCEPT ![b.id] = s]
  <2>1. DOMAIN e = DOMAIN sils /\ \A u \in DOMAIN e : e[u] = sils[u] \/ e[u] = s
    BY <1>7
  <2>2. Set(b).code = 200 /\ Set(b).id = b.id /\ Set(b).sils = e
    BY <1>7
  <2> HIDE DEF e
  <2>3. \A u \in DOMAIN e : "endsAt" \in DOMAIN e[u]
    BY Zenon, <1>2, <1>3, <2>1
  <2> QED BY <1>7, <2>1, <2>2, <2>3 DEF SetGood
<1>8. CASE Set(b) = New
  <2> DEFINE e == [u \in DOMAIN sils \cup {new} |-> IF u = new THEN started ELSE old[u]]
  <2>1. DOMAIN e = DOMAIN old \cup {new} /\ \A u \in DOMAIN e : e[u] = started \/ (u \in DOMAIN old /\ e[u] = old[u])
    BY <1>5
  <2>2. Set(b).code = 200 /\ Set(b).id = new /\ Set(b).sils = e
    BY <1>8
  <2> HIDE DEF e
  <2>3. \A u \in DOMAIN e : "endsAt" \in DOMAIN e[u]
    BY Zenon, <1>4, <1>5, <2>1
  <2> QED BY <1>5, <2>1, <2>2, <2>3 DEF SetGood
<1> QED BY Zenon, <1>1, <1>6, <1>7, <1>8

\* A silence is deleted: it ends, or is missing.
LEMMA DeleteSilenceStep ==
    ASSUME ApiInv, NEW r \in Requests, deleteSilenceHandler(r)
    PROVE  ApiInv'
<1> DEFINE u == req[r].p.silenceID
           changed == sils' # sils
<1>1. /\ req[r].op = "deleteSilence" /\ req[r].pc = "handle" /\ UNCHANGED <<sem, alerts>> /\ UNCHANGED world /\ UNCHANGED aux
  BY Zenon DEF deleteSilenceHandler, Handles, At
<1>2. api' = api /\ alerts' = alerts /\ now' = now /\ told' = told /\ ended' = ended /\ sem' = sem
  BY <1>1 DEF world, aux
<1>3. ReqType(r) /\ SeenInv(r) /\ FoundInv(r) /\ WorldInv
  BY Zenon, KnownReq
<1>4. CASE u \notin DOMAIN sils
  <2>1. Answer(r, 404, Nil) /\ sils' = sils
    BY Zenon, <1>4 DEF deleteSilenceHandler
  <2>2. Alone
    BY Zenon, <1>1, <1>2, <2>1 DEF Alone, stores
  <2>3. Moved(r, "answer", 404, Nil, req[r].changed, req[r].seen)
    BY Zenon, <2>1, GetsAnswer
  <2>4. \A h \in req[r].seen : h >= req[r].since
    BY Zenon, SeenFacts
  <2>5. MayMove(r, "answer", 404, Nil, req[r].seen)
    BY <1>1, <1>4, <2>4 DEF MayMove
  <2> QED BY Zenon, <2>2, <2>3, <2>5, MovedStep
<1>5. CASE u \in DOMAIN sils
  <2>1. /\ sils' = [sils EXCEPT ![u] = Expired(@)]
        /\ req' = [req EXCEPT ![r].pc = "answer", ![r].code = 200, ![r].changed = changed]
    BY Zenon, <1>5 DEF deleteSilenceHandler
  <2>2. changed \in BOOLEAN
    BY Zenon
  <2> HIDE DEF u, changed
  <2>3. Moved(r, "answer", 200, req[r].payload, changed, req[r].seen)
    BY Zenon, <2>1, Writes
  <2>4. DOMAIN sils' = DOMAIN sils /\ \A v \in DOMAIN sils : sils'[v] = sils[v] \/ sils'[v] = Expired(sils[v])
    BY <2>1
  <2>5. ASSUME NEW v \in DOMAIN sils
        PROVE  "endsAt" \in DOMAIN sils'[v] /\ (now > sils'[v].endsAt => v \in ended)
    <3>1. "endsAt" \in DOMAIN sils[v] /\ (now > sils[v].endsAt => v \in ended) /\ now \in Int
      BY Zenon, <1>3 DEF WorldInv
    <3>2. CASE sils'[v] = sils[v]
      BY Zenon, <3>1, <3>2
    <3>3. CASE sils'[v] = Expired(sils[v])
      BY <3>1, <3>3 DEF Expired
    <3> QED BY Zenon, <2>4, <3>2, <3>3
  <2>6. Ever' = Ever
    BY Zenon, <1>2, <2>4 DEF Ever
  <2>7. WorldInv'
    BY Zenon, <1>2, <1>3, <2>4, <2>5, <2>6 DEF WorldInv
  <2>8. Grows
    BY <1>2, <1>3, <2>6 DEF Grows, WorldInv
  <2>9. ReqType(r)'
    BY <1>3, <2>2, <2>3 DEF ReqType, Moved
  <2>10. SeenInv(r)'
    BY <1>1, <1>2, <1>3, <2>3 DEF SeenInv, Moved
  <2>11. WroteInv(r)'
    BY <1>1, <2>3 DEF WroteInv, Moved
  <2>12. FoundInv(r)'
    BY <1>1, <1>3, <2>3, <2>6 DEF FoundInv, Moved
  <2>13. OnlyReq(r) /\ req'[r].slot = req[r].slot
    BY Zenon, <2>3 DEF Moved
  <2> QED BY Zenon, <1>2, <2>7, <2>8, <2>9, <2>10, <2>11, <2>12, <2>13, SlotKept DEF ReqInv
<1> QED BY Zenon, <1>4, <1>5

\* A silence is posted.
LEMMA PostSilencesSetStep ==
    ASSUME ApiInv, NEW r \in Requests, postSilencesSet(r)
    PROVE  ApiInv'
<1> DEFINE res == Set(req[r].p.body)
           changed == sils' # sils
<1>1. /\ req[r].op = "postSilences" /\ req[r].pc = "set" /\ sils' = res.sils
      /\ ended' = ended \cup {u \in DOMAIN sils' : now > sils'[u].endsAt}
      /\ req' = [req EXCEPT ![r].pc = "answer", ![r].code = res.code, ![r].payload = res.id, ![r].p = Nil,
                            ![r].changed = changed]
      /\ UNCHANGED <<sem, alerts, told>> /\ UNCHANGED world
  BY Zenon DEF postSilencesSet, Handles, At
<1>2. api' = api /\ alerts' = alerts /\ now' = now /\ told' = told /\ sem' = sem
  BY <1>1 DEF world
<1>a. SetGood(res)
  BY Zenon, SetResult
<1> HIDE DEF res
<1>3. /\ res.code \in {200, 400, 404} /\ (res.code # 200 => res.sils = sils)
      /\ (res.code = 200 => res.id \in DOMAIN res.sils) /\ DOMAIN sils \subseteq DOMAIN res.sils
      /\ \A u \in DOMAIN res.sils : "endsAt" \in DOMAIN res.sils[u]
  BY Zenon, <1>a DEF SetGood
<1>4. changed \in BOOLEAN /\ (res.code # 200 => changed = FALSE)
  BY Zenon, <1>1, <1>3
<1> HIDE DEF changed
<1>5. ReqType(r) /\ SeenInv(r) /\ WroteInv(r) /\ FoundInv(r) /\ WorldInv /\ DOMAIN req = Requests /\ DOMAIN req[r] = ReqFields
  BY Zenon, KnownReq, HasFields
<1>6. OnlyReq(r) /\ req'[r] = [req[r] EXCEPT !.pc = "answer", !.code = res.code, !.payload = res.id, !.p = Nil,
                                             !.changed = changed]
  BY <1>1, <1>5 DEF OnlyReq
<1>7. /\ DOMAIN req'[r] = ReqFields /\ req'[r].pc = "answer" /\ req'[r].code = res.code /\ req'[r].payload = res.id
      /\ req'[r].changed = changed
  BY <1>5, <1>6 DEF ReqFields
<1>8. /\ req'[r].op = req[r].op /\ req'[r].slot = req[r].slot /\ req'[r].late = req[r].late
      /\ req'[r].since = req[r].since /\ req'[r].seen = req[r].seen /\ req'[r].known = req[r].known
  BY <1>5, <1>6 DEF ReqFields
<1>9. DOMAIN sils \subseteq DOMAIN sils' /\ ended \subseteq ended'
  BY Zenon, <1>1, <1>3
<1>10. Ever \subseteq Ever'
  BY Zenon, <1>9 DEF Ever
<1>11. \A u \in DOMAIN sils' : "endsAt" \in DOMAIN sils'[u] /\ (now > sils'[u].endsAt => u \in ended')
  BY Zenon, <1>1, <1>3
<1>12. told' \subseteq Ever'
  BY Zenon, <1>2, <1>5, <1>10 DEF WorldInv
<1>13. WorldInv'
  BY Zenon, <1>2, <1>5, <1>11, <1>12 DEF WorldInv
<1>14. Grows
  BY <1>2, <1>5, <1>9, <1>10 DEF Grows, WorldInv
<1>15. ReqType(r)'
  BY <1>4, <1>5, <1>7, <1>8 DEF ReqType
<1>16. SeenInv(r)'
  BY <1>1, <1>2, <1>5, <1>7, <1>8 DEF SeenInv
<1>17. WroteInv(r)'
  BY <1>1, <1>3, <1>4, <1>7, <1>8 DEF WroteInv
<1>18. FoundInv(r)'
  <2>1. res.code = 200 => res.id \in Ever'
    BY Zenon, <1>1, <1>3 DEF Ever
  <2>2. req[r].known \subseteq Ever'
    BY Zenon, <1>5, <1>10 DEF FoundInv
  <2> QED BY <1>1, <1>7, <1>8, <2>1, <2>2 DEF FoundInv
<1> QED BY Zenon, <1>2, <1>6, <1>8, <1>13, <1>14, <1>15, <1>16, <1>17, <1>18, SlotKept DEF ReqInv

-----------------------------------------------------------------------------

\* A step of the rest of the process.
LEMMA ProcessStep ==
    ASSUME ApiInv, req' = req, sem' = sem, WorldInv', Grows
    PROVE  ApiInv'
<1>1. \A d \in Requests : ReqInv(d)'
  BY Zenon, Keeps DEF ApiInv
<1>2. ApiSlotsOwned'
  BY Zenon DEF ApiInv, ApiSlotsOwned
<1> QED BY Zenon, <1>1, <1>2 DEF ApiInv

LEMMA UpdateStep ==
    ASSUME ApiInv, Update
    PROVE  ApiInv'
<1>1. /\ api' = [f \in DOMAIN api |-> api.config + 1] /\ alerts' = alerts /\ sils' = sils /\ told' = told /\ ended' = ended
      /\ now' = now /\ sem' = sem /\ req' = req
  BY DEF Update, stores, aux
<1>2. WorldInv
  BY Zenon DEF ApiInv
<1>3. /\ DOMAIN api' = {"config", "route", "status"} /\ api'.config = api.config + 1 /\ api'.route = api'.config
      /\ api'.status = api'.config /\ api'.config \in Nat /\ api.config <= api'.config
  BY <1>1, <1>2 DEF WorldInv
<1>4. Ever' = Ever
  BY Zenon, <1>1 DEF Ever
<1>5. WorldInv'
  BY Zenon, <1>1, <1>2, <1>3, <1>4 DEF WorldInv
<1>6. Grows
  BY Zenon, <1>1, <1>3, <1>4 DEF Grows
<1> QED BY Zenon, <1>1, <1>5, <1>6, ProcessStep

LEMMA TimeStep ==
    ASSUME ApiInv, TimePasses
    PROVE  ApiInv'
<1>1. /\ now' = now + 1 /\ ended' = ended \cup {u \in DOMAIN sils : now' > sils[u].endsAt}
      /\ alerts' = alerts /\ sils' = sils /\ told' = told /\ api' = api /\ sem' = sem /\ req' = req
  BY DEF TimePasses, stores
<1>2. WorldInv
  BY Zenon DEF ApiInv
<1>3. Ever \subseteq Ever' /\ ended \subseteq ended' /\ told \subseteq Ever'
  BY Zenon, <1>1, <1>2 DEF Ever, WorldInv
<1>4. now' \in Int
  BY <1>1, <1>2 DEF WorldInv
<1>5. \A u \in DOMAIN sils' : "endsAt" \in DOMAIN sils'[u] /\ (now' > sils'[u].endsAt => u \in ended')
  BY Zenon, <1>1, <1>2 DEF WorldInv
<1>6. WorldInv'
  BY Zenon, <1>1, <1>2, <1>3, <1>4, <1>5 DEF WorldInv
<1>7. Grows
  BY <1>1, <1>2, <1>3 DEF Grows, WorldInv
<1> QED BY Zenon, <1>1, <1>6, <1>7, ProcessStep

LEMMA GarbageStep ==
    ASSUME ApiInv, CollectGarbage
    PROVE  ApiInv'
<1>1. PICK u \in DOMAIN sils : getState(sils[u]) = "expired" /\ sils' = [v \in DOMAIN sils \ {u} |-> sils[v]]
  BY Zenon DEF CollectGarbage
<1>2. /\ alerts' = alerts /\ told' = told /\ ended' = ended /\ api' = api /\ now' = now /\ sem' = sem /\ req' = req
  BY DEF CollectGarbage, world, aux
<1>3. WorldInv
  BY Zenon DEF ApiInv
<1>4. now > sils[u].endsAt
  <2>1. "pending" # "expired" /\ "active" # "expired"
    BY SMT
  <2> QED BY Zenon, <1>1, <2>1 DEF getState
<1>5. u \in ended
  BY Zenon, <1>3, <1>4 DEF WorldInv
<1>6. DOMAIN sils' = DOMAIN sils \ {u} /\ \A v \in DOMAIN sils' : sils'[v] = sils[v]
  BY Zenon, <1>1
<1>7. Ever \subseteq Ever'
  BY Zenon, <1>2, <1>5, <1>6 DEF Ever
<1>8. told' \subseteq Ever'
  BY Zenon, <1>2, <1>3, <1>7 DEF WorldInv
<1>9. \A v \in DOMAIN sils' : "endsAt" \in DOMAIN sils'[v] /\ (now' > sils'[v].endsAt => v \in ended')
  <2> SUFFICES ASSUME NEW v \in DOMAIN sils'
               PROVE  "endsAt" \in DOMAIN sils'[v] /\ (now' > sils'[v].endsAt => v \in ended')
    OBVIOUS
  <2>1. v \in DOMAIN sils /\ sils'[v] = sils[v]
    BY Zenon, <1>6
  <2> QED BY Zenon, <1>2, <1>3, <2>1 DEF WorldInv
<1>10. WorldInv'
  BY Zenon, <1>2, <1>3, <1>8, <1>9 DEF WorldInv
<1>11. Grows
  BY <1>2, <1>3, <1>7 DEF Grows, WorldInv
<1> QED BY Zenon, <1>2, <1>10, <1>11, ProcessStep

\* A step of a request.
LEMMA RequestStep ==
    ASSUME ApiInv, NEW ops, RequestNext(ops)
    PROVE  ApiInv'
<1>1. PICK r \in Requests : Arrive(r, ops) \/ Serve(r) \/ TimeoutHandler(r)
  BY Zenon DEF RequestNext
<1>2. CASE Serve(r)
  BY Zenon, <1>2, LimitStep, ServeHTTPStep, ReturnStep, GetReceiversHandlerStep, GetStatusHandlerStep, GetAlertsHandlerStep,
     GetAlertsLoopStep, GetAlertGroupsHandlerStep, GetAlertGroupsGroupsStep, GetAlertGroupsPredictStep,
     PostAlertsHandlerStep, PostAlertsPutStep, GetSilencesHandlerStep, GetSilenceHandlerStep, DeleteSilenceStep,
     PostSilencesHandlerStep, PostSilencesSetStep DEF Serve
<1> QED BY Zenon, <1>1, <1>2, ArriveStep, TimeoutStep

LEMMA ApiStays ==
    ASSUME ApiInv, UNCHANGED apiVars
    PROVE  ApiInv'
<1>1. UNCHANGED stores /\ UNCHANGED world /\ UNCHANGED aux /\ req' = req /\ sem' = sem
  BY DEF apiVars, stores, world, aux
<1> QED BY Zenon, <1>1, Quiet, ProcessStep

LEMMA ApiStarts == ApiInit => ApiInv
<1> SUFFICES ASSUME ApiInit PROVE ApiInv
  OBVIOUS
<1>1. ASSUME NEW r \in Requests
      PROVE  /\ DOMAIN req[r] = ReqFields /\ req[r].pc = "idle" /\ req[r].slot = FALSE /\ req[r].late = FALSE
             /\ req[r].changed = FALSE /\ req[r].since = 0 /\ req[r].seen = {} /\ req[r].known = {}
  BY DEF ApiInit, Idle, ReqFields
<1>2. /\ DOMAIN api = {"config", "route", "status"} /\ api.config = 1 /\ api.route = 1 /\ api.status = 1
      /\ DOMAIN sils = {} /\ now = 0 /\ told = {} /\ sem = 0 /\ DOMAIN req = Requests
  BY DEF ApiInit
<1>3. WorldInv
  BY <1>2 DEF WorldInv
<1>4. ASSUME NEW r \in Requests PROVE ReqInv(r)
  <2>0. /\ DOMAIN req[r] = ReqFields /\ req[r].pc = "idle" /\ req[r].slot = FALSE /\ req[r].late = FALSE
        /\ req[r].changed = FALSE /\ req[r].since = 0 /\ req[r].seen = {} /\ req[r].known = {}
    BY Zenon, <1>1
  <2>4. 0 \in Nat /\ 0 <= api.config
    BY <1>2
  <2>1. ReqType(r)
    BY Zenon, <2>0, <2>4 DEF ReqType
  <2>5. "idle" # "answer"
    BY SMT
  <2>2. SeenInv(r)
    BY Zenon, <2>0, <2>4, <2>5 DEF SeenInv
  <2>3. WroteInv(r) /\ FoundInv(r)
    BY Zenon, <2>0, <2>5 DEF WroteInv, FoundInv
  <2> QED BY Zenon, <2>1, <2>2, <2>3 DEF ReqInv
<1>5. Holding = {}
  BY Zenon, <1>1 DEF Holding
<1>6. Cardinality({}) = 0 /\ 0 <= Limit
  BY FS_EmptySet, ApiAssumption
<1>7. ApiSlotsOwned
  BY Zenon, <1>2, <1>5, <1>6 DEF ApiSlotsOwned, Holding
<1> QED BY Zenon, <1>2, <1>3, <1>4, <1>7 DEF ApiInv

\* The invariant implies the properties.
LEMMA ApiGood == ApiInv => ApiSlotsOwned /\ OneConfiguration /\ RefusedChangesNothing /\ ValidAlertsAreTaken /\ ToldIsFound
<1> SUFFICES ASSUME ApiInv PROVE ApiSlotsOwned /\ OneConfiguration /\ RefusedChangesNothing /\ ValidAlertsAreTaken /\ ToldIsFound
  OBVIOUS
<1>1. \A r \in Requests : ReqType(r) /\ SeenInv(r) /\ WroteInv(r) /\ FoundInv(r)
  BY Zenon DEF ApiInv, ReqInv
<1>2. OneConfiguration
  BY Zenon, <1>1 DEF OneConfiguration, SeenInv, Handles, At
<1>3. RefusedChangesNothing
  BY <1>1 DEF RefusedChangesNothing, ReqType, WroteInv, At
<1>4. ValidAlertsAreTaken
  BY Zenon, <1>1 DEF ValidAlertsAreTaken, WroteInv, Taken, Handles, At
<1>5. ToldIsFound
  BY Zenon, <1>1 DEF ToldIsFound, FoundInv, At
<1> QED BY Zenon, <1>2, <1>3, <1>4, <1>5 DEF ApiInv

-----------------------------------------------------------------------------
(* The theorems *)

LEMMA Invariance == Spec => [](ApiInv /\ ConnectInv)
<1>1. Init => ApiInv /\ ConnectInv
  BY Zenon, ApiStarts, ConnectStarts DEF Init
<1>2. ApiInv /\ ConnectInv /\ [Next]_vars => ApiInv' /\ ConnectInv'
  <2> SUFFICES ASSUME ApiInv, ConnectInv, [Next]_vars PROVE ApiInv' /\ ConnectInv'
    OBVIOUS
  <2>1. ASSUME UNCHANGED apiVars, UNCHANGED connectVars PROVE ApiInv' /\ ConnectInv'
    BY Zenon, <2>1, ApiStays, ConnectStays
  <2>2. CASE Wire
    <3>1. UNCHANGED apiVars /\ UNCHANGED connectVars
      BY <2>2 DEF Wire
    <3> QED BY Zenon, <2>1, <3>1
  <2>3. CASE AlertsPart
    <3>1. UNCHANGED connectVars
      BY <2>3 DEF AlertsPart
    <3> QED BY Zenon, <2>3, <3>1, RequestStep, UpdateStep, ConnectStays DEF AlertsPart
  <2>4. CASE SilencesPart
    <3>1. UNCHANGED connectVars
      BY <2>4 DEF SilencesPart
    <3> QED BY Zenon, <2>4, <3>1, RequestStep, TimeStep, GarbageStep, ConnectStays DEF SilencesPart
  <2>5. CASE ConnectPart
    <3>1. UNCHANGED apiVars
      BY <2>5 DEF ConnectPart
    <3> QED BY Zenon, <2>5, <3>1, ConnectNextStep, ApiStays DEF ConnectPart
  <2>6. CASE UNCHANGED vars
    <3>1. UNCHANGED apiVars /\ UNCHANGED connectVars
      BY <2>6 DEF vars
    <3> QED BY Zenon, <2>1, <3>1
  <2> QED BY Zenon, <2>2, <2>3, <2>4, <2>5, <2>6 DEF Next
<1> QED BY <1>1, <1>2, PTL DEF Spec

\* limitHandler and the admission of the Connect API, for any number of requests and any limits:
\* every slot that is taken is owned by a request, an RPC or the goroutine it started; none is
\* lost or given back twice, whatever times out, is cancelled or is refused.
THEOREM SlotsAreOwnedThm == Spec => []SlotsAreOwned
<1>1. ApiInv /\ ConnectInv => SlotsAreOwned
  BY Zenon, ApiGood, ConnectGood DEF SlotsAreOwned
<1> QED BY <1>1, Invariance, PTL

\* For any number of reloads: what a handler reads in one section of the lock is of one
\* configuration, nothing it shows had been replaced when the request came, and an RPC answers
\* with its own reading of the cluster, never with that of an earlier call.
THEOREM AnswersAreFreshThm == Spec => []AnswersAreFresh
<1>1. ApiInv /\ ConnectInv => AnswersAreFresh
  BY Zenon, ApiGood, ConnectGood DEF AnswersAreFresh
<1> QED BY <1>1, Invariance, PTL

\* For any requests of any clients: a request that is refused has changed nothing but taken
\* valid alerts, valid alerts are stored, and a silence whose id reached a client is found
\* by later requests until it has ended, whatever is updated, replaced or collected.
THEOREM AnswersTellTruthThm == Spec => []AnswersTellTruth
<1>1. ApiInv /\ ConnectInv => AnswersTellTruth
  BY Zenon, ApiGood DEF AnswersTellTruth
<1> QED BY <1>1, Invariance, PTL

\* A silence as it is listed, with any dates.
Listed(s) == s.status.state \in {"active", "pending", "expired"} /\ s.startsAt \in Int /\ s.endsAt \in Int

\* Less by numbers: the state, then the date that counts in it.
Rank(s) == silenceStateOrder[s.status.state]
Date(s) == IF s.status.state = "active" THEN s.endsAt ELSE IF s.status.state = "pending" THEN s.startsAt ELSE -s.endsAt

LEMMA LessByNumbers ==
    ASSUME NEW a, NEW b, Listed(a), Listed(b)
    PROVE  /\ Rank(a) \in Int /\ Rank(b) \in Int /\ Date(a) \in Int /\ Date(b) \in Int
           /\ SilenceLess(a, b) <=> Rank(a) < Rank(b) \/ (Rank(a) = Rank(b) /\ Date(a) < Date(b))
<1>1. Rank(a) \in 1..3 /\ Rank(b) \in 1..3 /\ (Rank(a) = Rank(b) <=> a.status.state = b.status.state)
  BY DEF Listed, Rank, silenceStateOrder
<1>2. Date(a) \in Int /\ Date(b) \in Int
  BY DEF Listed, Date
<1>3. CASE a.status.state # b.status.state
  <2>1. SilenceLess(a, b) <=> Rank(a) < Rank(b)
    BY Zenon, <1>3 DEF SilenceLess, Rank
  <2> QED BY <1>1, <1>2, <1>3, <2>1
<1>4. CASE a.status.state = b.status.state
  <2>1. SilenceLess(a, b) <=> Date(a) < Date(b)
    <3>1. CASE a.status.state = "active"
      BY <1>4, <3>1 DEF SilenceLess, Date, Listed
    <3>2. CASE a.status.state = "pending"
      BY <1>4, <3>2 DEF SilenceLess, Date, Listed
    <3>3. CASE a.status.state = "expired"
      BY <1>4, <3>3 DEF SilenceLess, Date, Listed
    <3> QED BY <3>1, <3>2, <3>3 DEF Listed
  <2> QED BY <1>1, <1>2, <1>4, <2>1
<1> QED BY Zenon, <1>3, <1>4

\* The comparison that SortSilences gives to sort.Slice is a strict weak order on silences
\* with any dates, as sort.Slice needs it: irreflexive, transitive, and so is being equal.
THEOREM SilenceOrderThm ==
    ASSUME NEW a, NEW b, NEW c, Listed(a), Listed(b), Listed(c)
    PROVE  /\ ~SilenceLess(a, a)
           /\ ~(SilenceLess(a, b) /\ SilenceLess(b, a))
           /\ SilenceLess(a, b) /\ SilenceLess(b, c) => SilenceLess(a, c)
           /\ ~SilenceLess(a, b) /\ ~SilenceLess(b, a) /\ ~SilenceLess(b, c) /\ ~SilenceLess(c, b) =>
                ~SilenceLess(a, c) /\ ~SilenceLess(c, a)
BY LessByNumbers

=============================================================================
