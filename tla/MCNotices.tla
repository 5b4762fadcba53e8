------------------------------ MODULE MCNotices ------------------------------
EXTENDS Notices

\* One fact, or none, is never found too late.
MCIsolations ==
    [s \in Sources |-> IF s \in {"discovery", "quality", "inference"}
                       THEN {"committed", "snapshot"} ELSE {"committed"}]

\* Who is notified does not depend on the kind of fact.
MCMaxChanges == [s \in Sources |-> IF s \in {"quality", "inference"} THEN 0 ELSE 1]

\* The mail of one fact tells all.
MCFactPlaces == [s \in Plain |-> IF s = "fact" THEN {1} ELSE Places]

MCAccounts ==
    ({"user", "team", "project", "member", "key", "project_key"} \X {"monthly"})
    \union ({"user", "team", "project", "key", "project_key"} \X {"rolling"})
    \union ({"user", "team", "project", "member"} \X {"exhausted"})

=============================================================================
