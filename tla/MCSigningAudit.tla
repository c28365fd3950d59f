-------------------------- MODULE MCSigningAudit --------------------------
EXTENDS SigningAudit

Sound == [retention |-> 0, gaps |-> {}, provider |-> "gcp-audit",
          backend |-> "gcp-kms", capability |-> "digest_bound", attest |-> TRUE,
          fault |-> "none", page |-> 0]

\* A sound trail, and each way in which it can be worse.
MCTrails ==
    {Sound,
     [Sound EXCEPT !.retention = 1, !.gaps = {[start |-> 2, end |-> 3]}],
     [Sound EXCEPT !.attest = FALSE],
     [Sound EXCEPT !.provider = "aws-cloudtrail", !.backend = "aws-kms",
                   !.capability = "metadata_only"],
     [Sound EXCEPT !.fault = "omit", !.page = 1]}

MCQueries == {[start |-> 2, end |-> 4]}
MCExportRange == [start |-> 0, end |-> 8]
=============================================================================
