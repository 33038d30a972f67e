CONSTANTS
    a1 = a1
    a2 = a2
    u1 = u1
    u2 = u2
    u3 = u3
    u4 = u4
    d1 = d1
    d2 = d2
    g1 = g1
    g2 = g2
SPECIFICATION Spec
PROPERTIES ClusterHeals StatesAgree PacketsDelivered
CHECK_DEADLOCK FALSE
