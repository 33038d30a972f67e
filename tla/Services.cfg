CONSTANTS
    Request = {r1}
    LifeScenes <- Processes
    r1 = r1
    w1 = w1
    w2 = w2
    a1 = a1
    f1 = f1
    None = None
SPECIFICATION Spec
  
PROPERTIES  StopsEnd EventuallyNotified
CHECK_DEADLOCK FALSE
