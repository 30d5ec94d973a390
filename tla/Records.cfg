SPECIFICATION RecordsSpec
SYMMETRY RecordsSymmetry
CONSTANTS
    r1 = r1
    r2 = r2
    o1 = o1
    o2 = o2
    u1 = u1
    u2 = u2
    u3 = u3
    Migrators = {r1, r2}
    Commands <- MCCommands
    MaxBegun = 2
    AuthRequests = {r1, r2}
    MaxSessions = 3
    Acceptors = {r1, r2}
    Emails = {u2}
    MaxInvitations = 2
    MaxSends = 2
    Statuses <- MCStatuses
    KeyRequests = {r1, r2}
    MaxKeys = 3
    ShareRequests = {r1, r2}
    MaxLinks = 2
    MaxViews = 2
    OrgRequests = {r1, r2}
    Orgs = {o1, o2}
    Users = {u1, u2, u3}
    Roles <- MCRoles
    MemberLimit = 2
    MaxInvites = 1
    RoleRequests = {r1, r2}
    MaxRoles = 3
    MaxUserRoles = 1
    MaxEdits = 2
INVARIANTS
    RecordsTypeOK
    CredentialsRetired
    
    LinksKept
    RolesKept
PROPERTIES
    SchemaKept
    
CHECK_DEADLOCK FALSE
