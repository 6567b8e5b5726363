----------------------------- MODULE ObjectStore -----------------------------
(***************************************************************************)
(* The S3 bucket.  The key of a document's object embeds the document id,  *)
(* so objects are indexed by Docs.  An object is the bytes it holds and    *)
(* the sha256 metadata stored beside them; both are digests, a digest      *)
(* standing for the content (its hash and its length) it identifies.       *)
(***************************************************************************)
EXTENDS DocumentTable

CONSTANTS
  Digests,    \* contents, and the digests that declare them
  NoObject    \* what is stored under a key nothing was written to

VARIABLE objects

Object == [bytes : Digests, sha256 : Digests]

ASSUME NoObjectAssumption == NoObject \notin Object

StoreInit == objects = [d \in Docs |-> NoObject]

StoreTypeOK == objects \in [Docs -> Object \cup {NoObject}]

Stored(d) == objects[d] # NoObject

(* A PUT, by the API or through a presigned URL: bytes b, declared as sha. *)
PutObject(d, b, sha) ==
  objects' = [objects EXCEPT ![d] = [bytes |-> b, sha256 |-> sha]]

(* Faulty variant: an upload is completed on the client's word.            *)
Unverified(d, sha) == TRUE

(* HEAD: the object exists and its metadata is the declared digest.        *)
Verify(d, sha) == Stored(d) /\ objects[d].sha256 = sha
=============================================================================
