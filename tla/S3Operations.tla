---------------------------- MODULE S3Operations ----------------------------
(***************************************************************************)
(* What the S3 proxy takes a request for (src/src/s3/operations.ts) and    *)
(* the contexts it authorizes it under (src/src/s3/routes.ts).             *)
(*                                                                         *)
(* A request is [method, bucket, key, params, source, deletes]: bucket and *)
(* key are sequences of atoms or Missing; params is the set of query       *)
(* parameters present, with "list-type=2" and "select-type=2" for those    *)
(* values and CopySource for the header x-amz-copy-source; source is the   *)
(* bucket and key that header names; deletes is the set of keys in the     *)
(* body of a DeleteObjects request.  URL decoding is left out, and so are  *)
(* the header fields content_type and content_length.                      *)
(***************************************************************************)
EXTENDS PolicyEngine

S3Methods == {"GET", "HEAD", "PUT", "POST", "DELETE"}
CopySource == "x-amz-copy-source"

\* An operation together with the parameters that select it.
When(params, name) == [needs |-> params, name |-> name]
Otherwise(name) == When({}, name)

Renamed(prefix, suffixes) ==
  [i \in DOMAIN suffixes |-> When({suffixes[i][1]}, prefix \o suffixes[i][2])]

-----------------------------------------------------------------------------
(* The operations of a method in the order in which they are tried. *)

Selecting == {"select", "select-type=2"}

ObjectDetails == <<
  <<"tagging", "ObjectTagging">>, <<"acl", "ObjectAcl">>,
  <<"retention", "ObjectRetention">>, <<"legal-hold", "ObjectLegalHold">>>>

\* Mutant of PutObjectOperations: the parts of an upload come before the copies.
PutObjectOperationsPartFirst ==
  <<When({"uploadId"}, "UploadPart")>> \o Renamed("Put", ObjectDetails)
    \o <<When({CopySource}, "CopyObject"), Otherwise("PutObject")>>

PutObjectOperations ==
  <<When({"uploadId", CopySource}, "UploadPartCopy"), When({"uploadId"}, "UploadPart")>>
    \o Renamed("Put", ObjectDetails) \o <<When({CopySource}, "CopyObject"), Otherwise("PutObject")>>

ObjectOperations == [
  GET    |-> <<When({"uploadId"}, "ListParts")>> \o Renamed("Get", ObjectDetails)
               \o <<When(Selecting, "SelectObjectContent"), Otherwise("GetObject")>>,
  HEAD   |-> <<Otherwise("HeadObject")>>,
  PUT    |-> PutObjectOperations,
  DELETE |-> <<When({"uploadId"}, "AbortMultipartUpload"),
               When({"tagging"}, "DeleteObjectTagging"), Otherwise("DeleteObject")>>,
  POST   |-> <<When({"uploads"}, "CreateMultipartUpload"),
               When({"uploadId"}, "CompleteMultipartUpload"),
               When({"restore"}, "RestoreObject"),
               When(Selecting, "SelectObjectContent"), Otherwise("PutObject")>>]

BucketDetails == <<
  <<"acl", "BucketAcl">>, <<"versioning", "BucketVersioning">>, <<"policy", "BucketPolicy">>,
  <<"tagging", "BucketTagging">>, <<"website", "BucketWebsite">>, <<"logging", "BucketLogging">>,
  <<"notification", "BucketNotification">>, <<"replication", "BucketReplication">>,
  <<"object-lock", "ObjectLockConfiguration">>, <<"publicAccessBlock", "PublicAccessBlock">>,
  <<"accelerate", "BucketAccelerateConfiguration">>, <<"requestPayment", "BucketRequestPayment">>>>

BucketBasics == << <<"cors", "BucketCors">>, <<"lifecycle", "BucketLifecycle">> >>

BucketOperations == [
  GET    |-> Renamed("Get", BucketBasics \o << <<"location", "BucketLocation">>,
                                               <<"encryption", "BucketEncryption">> >>)
               \o <<When({"uploads"}, "ListMultipartUploads")>> \o Renamed("Get", BucketDetails)
               \o <<When({"list-type=2"}, "ListObjectsV2"), Otherwise("ListObjects")>>,
  HEAD   |-> <<Otherwise("HeadBucket")>>,
  PUT    |-> Renamed("Put", BucketBasics \o BucketDetails) \o <<Otherwise("CreateBucket")>>,
  DELETE |-> Renamed("Delete", << <<"cors", "BucketCors">>, <<"policy", "BucketPolicy">>,
                                  <<"tagging", "BucketTagging">>, <<"website", "BucketWebsite">>,
                                  <<"replication", "BucketReplication">>,
                                  <<"publicAccessBlock", "PublicAccessBlock">> >>)
               \o <<Otherwise("DeleteBucket")>>,
  POST   |-> <<When({"delete"}, "DeleteObjects"), Otherwise("ListObjects")>>]

\* detectOperation.  A path that ends after the bucket's slash has an empty key.
Operation(req) ==
  IF req.bucket = Missing THEN "ListBuckets"
  ELSE LET table == IF req.key \in {Missing, <<>>} THEN BucketOperations[req.method]
                                                   ELSE ObjectOperations[req.method]
       IN table[SelectInSeq(table, LAMBDA row : row.needs \subseteq req.params)].name

\* R2_SUPPORTED with the entries of ACTION_MAP.  Any other operation is
\* answered with 501 before the signature is looked at.
ActionMap ==
  [ListBuckets |-> "ListAllMyBuckets", HeadBucket |-> "HeadBucket",
   CreateBucket |-> "CreateBucket", DeleteBucket |-> "DeleteBucket",
   GetBucketLocation |-> "GetBucketLocation",
   GetBucketEncryption |-> "GetEncryptionConfiguration",
   GetBucketCors |-> "GetBucketCors", PutBucketCors |-> "PutBucketCors",
   DeleteBucketCors |-> "DeleteBucketCors",
   GetBucketLifecycle |-> "GetLifecycleConfiguration",
   PutBucketLifecycle |-> "PutLifecycleConfiguration",
   ListObjects |-> "ListBucket", ListObjectsV2 |-> "ListBucket",
   ListMultipartUploads |-> "ListBucketMultipartUploads",
   GetObject |-> "GetObject", HeadObject |-> "GetObject", PutObject |-> "PutObject",
   CopyObject |-> "PutObject", DeleteObject |-> "DeleteObject",
   DeleteObjects |-> "DeleteObject", CreateMultipartUpload |-> "PutObject",
   UploadPart |-> "PutObject", UploadPartCopy |-> "PutObject",
   CompleteMultipartUpload |-> "PutObject",
   AbortMultipartUpload |-> "AbortMultipartUpload",
   ListParts |-> "ListMultipartUploadParts"]

IsR2Supported(req) == Operation(req) \in DOMAIN ActionMap

S3Action(name) == <<"s3:", ActionMap[name]>>

Object(bucket, key) == <<"object:">> \o bucket \o <<"/">> \o key

\* buildOp
S3Resource(req) ==
  CASE req.bucket = Missing        -> <<"account:", "*">>
    [] req.key \in {Missing, <<>>} -> <<"bucket:">> \o req.bucket
    [] OTHER                       -> Object(req.bucket, req.key)

-----------------------------------------------------------------------------
(* Condition fields and contexts. *)

KeyFieldNames == {"key", "key.prefix", "key.filename", "key.extension"}
S3FieldNames == KeyFieldNames \cup {"method", "bucket", "source_bucket", "source_key"}

LastOf(atom, key) == SelectLastInSeq(key, LAMBDA a : a = atom)

\* The fields of a key; the extension follows a dot in the file name.
KeyFields(key) ==
  LET slash == LastOf("/", key)
      dot   == LastOf(".", key)
  IN [f \in KeyFieldNames |->
        CASE f = "key"           -> key
          [] f = "key.prefix"    -> SubSeq(key, 1, slash)
          [] f = "key.filename"  -> SubSeq(key, slash + 1, Len(key))
          [] f = "key.extension" -> IF dot > slash THEN SubSeq(key, dot + 1, Len(key))
                                                   ELSE Missing]

\* buildConditionFields
S3Fields(req) ==
  [f \in S3FieldNames |->
     CASE f = "method"        -> <<req.method>>
       [] f = "bucket"        -> req.bucket
       [] f = "source_bucket" -> req.source.bucket
       [] f = "source_key"    -> req.source.key
       [] OTHER -> IF req.key \in {Missing, <<>>} THEN Missing ELSE KeyFields(req.key)[f]]

OwnContext(req) == Context(S3Action(Operation(req)), S3Resource(req), S3Fields(req))

\* A copy also reads its source.  The fields are those of the whole request.
SourceContexts(req) ==
  IF Operation(req) \in {"CopyObject", "UploadPartCopy"} /\ req.source.key # Missing
    THEN {Context(S3Action("GetObject"), Object(req.source.bucket, req.source.key), S3Fields(req))}
    ELSE {}

\* One context for each key of the body, in place of the bucket's.
DeleteContexts(req) ==
  {Context(S3Action("DeleteObject"), Object(req.bucket, key),
           [f \in S3FieldNames |-> IF f \in KeyFieldNames THEN KeyFields(key)[f]
                                                          ELSE S3Fields(req)[f]])
     : key \in req.deletes}

S3Contexts(req) ==
  IF Operation(req) = "DeleteObjects" /\ req.deletes # {}
    THEN DeleteContexts(req)
    ELSE {OwnContext(req)} \cup SourceContexts(req)
=============================================================================
