--------------------------- MODULE ObjectStorage_MC ---------------------------
(* Instances of ObjectStorage for TLC: the pool of the project is there    *)
(* and the requests write and delete the object and its bucket, or upload  *)
(* (through URLs too) while the limits change; or the pool has to be       *)
(* created, is evicted and closed while requests read.                     *)
EXTENDS ObjectStorage

Objects == [warm |-> TRUE, ops |-> ObjectOps \cup {"CreateBucket", "DeleteBucket"},
            buckets |-> {"open"}, rows |-> {0, FromClient}]
Limits == [warm |-> TRUE, ops |-> {"Upload", "UploadComplete", "PresignUpload", "UpdateBucket"},
           buckets |-> {"open"}, rows |-> {0}]
Cold == [warm |-> FALSE, ops |-> {"Download", "ListBuckets"}, buckets |-> {"open"}, rows |-> {0}]
AllUsages == {Objects, Limits, Cold}
=============================================================================
