SPECIFICATION MCSpec
CONSTANTS
    u1 = u1
    u2 = u2
    u3 = u3
    admins = admins
    team = team
    m1 = m1
    m2 = m2
    secret = secret
    rule = rule
    manage = manage
    invoke = invoke
    alias = alias
    r1 = r1
    r2 = r2
    None = None
    Users = {u1, u2, u3}
    Groups = {admins, team}
    Models = {m1, m2}
    Secrets = {secret}
    Rules = {rule}
    Permissions = {manage, invoke}
    Manage = manage
    Administrators = admins
    Matches <- ThePatterns
    Bodies <- TheBodies
    Requests = {r1, r2}
INVARIANTS AuditComplete AuditTrue ListingMatchesAccess
PROPERTIES AdministratorsSurviveDelete
SYMMETRY TheSymmetry
CHECK_DEADLOCK FALSE
