SPECIFICATION Spec
CONSTANTS
    s = s  ann = ann  n1 = n1  n2 = n2  m1 = m1  m2 = m2
    t1 = t1  t2 = t2  thing = thing  e1 = e1  e2 = e2
    l1 = l1  l2 = l2  q1 = q1  q2 = q2
    Users = {s, ann}  Seeds = {s}
    SeedName <- MCName  SeedMail <- MCMail
    Names = {n1, n2}  Mails = {m1, m2}
    Tokens = {t1, t2}  Roles = {thing}
    Entries = {e1, e2}  Labels = {l1, l2}
    Requests = {q1, q2}
    MaxBegun = 2  MaxFaults = 0
    Null = Null
CHECK_DEADLOCK FALSE
PROPERTY MailedSecretIsCurrent
