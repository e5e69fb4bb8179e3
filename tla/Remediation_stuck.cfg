SPECIFICATION FairSpec
CONSTANTS
    h1 = h1
    h2 = h2
    r1 = r1
    r2 = r2
    Handlers = {h1}
    Replicas = {r1}
    On <- OneReplica
    Proposals = {p1}
    Evals = {e1}
    Pulls = {q1}
    Backends = {b1}
    None = None
PROPERTIES AnswerArrives
