SPECIFICATION Spec
CONSTANTS
    h1 = h1
    h2 = h2
    r1 = r1
    r2 = r2
    Handlers = {h1, h2}
    Replicas = {r1}
    On <- OneReplica
    Proposals = {p1}
    Evals = {e1, e2}
    Pulls = {q1, q2}
    Backends = {b1}
    None = None
SYMMETRY Interchangeable
INVARIANTS TypeOK ConsentFirst AnswersAudited PullRequestComplete FreshVerification
