\* The founder and one other person with a device of any platform, two
\* organizations, three memberships, two auth keys; three invitations,
\* changes, failures, sign-outs or expiries.
SPECIFICATION Spec
CONSTANTS
    People = {founder, p1}
    Founder = founder
    OrgIds = {orgA, orgB}
    FirstOrg = orgA
    MaxRows = 3
    MaxEvents = 3
    Faults = {}
    Nobody = Nobody
    NoOrg = NoOrg
    Owners = {p1}
    Platforms = {"macos", "linux", "windows"}
    MaxKeys = 2
INVARIANTS TypeOK
PROPERTIES InviteeGetsIn DeviceConnects
