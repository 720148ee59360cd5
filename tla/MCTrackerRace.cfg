\* A second seeder announcing while a client's list is encoded is enough.
CONSTANTS
    Files = {f1}
    Addrs = {p1, p2}
    Hashes = {h1}
    Clients = {c1}
    Threshold = 1
    PerPage = 1
    NULL = NULL
SPECIFICATION Spec
PROPERTY RequestsEndInReply
