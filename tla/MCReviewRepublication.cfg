SPECIFICATION Spec
CONSTANTS
    s1 = s1
    s2 = s2
    f1 = f1
    f2 = f2
    alice = alice
    bob = bob
    tab1 = tab1
    tab2 = tab2
    tab3 = tab3
    k1 = k1
    k2 = k2
    k3 = k3
    NoReviewer = NoReviewer
    Nothing = Nothing
    Submissions <- OneSubmission
    MaxVersions = 1
    Findings <- OneFinding
    Scored <- OneFinding
    Reviewers <- OneReviewer
    Admins <- NoAdmins
    Sessions <- OneTab
    User <- UserOf
    Commands <- TwoCommands
    MaxAttempts = 1
    MaxRevision = 3
PROPERTIES
    RepublicationShowsEdits
