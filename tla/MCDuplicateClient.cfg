SPECIFICATION Spec
CONSTANTS
    e1 = e1
    Emails = {e1, e2}
    Protos = {vless, trojan}
    Secrets = {s1, s2}
    Tags = {t1, t2, t3}
    t1 = t1
    b1 = b1
    b2 = b2
    MaxClients = 2
    MaxRoutes = 3
    Clients <- AllClients
    Routes <- AllRoutes
    Answers <- RepeatedAnswers
    MaxFaults = 0
PROPERTIES ResentQuiet
