---------------------------- MODULE ParseUploads ----------------------------
(***************************************************************************)
(* Two-step document uploads of apps/api/src/routes.rs: POST               *)
(* /v2/parse/upload-url makes a reference, PUT stores the bytes, and       *)
(* /v2/parse or /v2/parse/reference takes them out and parses them, in the *)
(* process or in Bee Engine.  Every handler locks the table of uploads     *)
(* once; what follows the lock, the parse, runs concurrently.              *)
(***************************************************************************)
EXTENDS Naturals

CONSTANTS
    Uploads,    \* upload references; a reference is used once
    Documents,  \* [pdf, readable: is it one, and can it be read as one;
                \*  texts, scans: its pages with and without embedded text]
    Options,    \* [accepted, mode, onlyMarkdown] of a parse request
    Parsers,    \* requests that parse
    NoDocument, NoUpload, NoAnswerYet

ASSUME UploadsAssumption == NoDocument \notin Documents /\ NoUpload \notin Uploads

VARIABLES
    uploads,  \* parse_uploads: "unused", "kept", "expired" and still there, "absent"
    stored,   \* the data of an upload
    parsing,  \* the upload and the document a request works on
    answer,   \* the last answer given: who parsed what, and in which mode
    takes     \* history: how often an upload was handed to a parse

uploadVars == <<uploads, stored, parsing, answer, takes>>

NoParse == [upload |-> NoUpload, document |-> NoDocument]

-----------------------------------------------------------------------------
(* The table of uploads.                                                   *)

(* POST /v2/parse/upload-url, with a file name, type and size it accepts.  *)
MakeReference(u) ==
    /\ uploads[u] = "unused"
    /\ uploads' = [uploads EXCEPT ![u] = "kept"]
    /\ UNCHANGED <<stored, parsing, answer, takes>>

(* Fifteen minutes pass.                                                   *)
ReferenceExpires(u) ==
    /\ uploads[u] = "kept"
    /\ uploads' = [uploads EXCEPT ![u] = "expired"]
    /\ UNCHANGED <<stored, parsing, answer, takes>>

Discard(u) ==
    /\ uploads' = [uploads EXCEPT ![u] = "absent"]
    /\ stored' = [stored EXCEPT ![u] = NoDocument]

(* PUT: an expired upload is removed, a later body replaces an earlier.    *)
Put(u, d) ==
    /\ uploads[u] \in {"kept", "expired"}
    /\ IF uploads[u] = "expired" THEN Discard(u)
       ELSE stored' = [stored EXCEPT ![u] = d] /\ UNCHANGED uploads
    /\ UNCHANGED <<parsing, answer, takes>>

BadTaken(u) == UNCHANGED <<uploads, stored>>

(* The upload leaves the table under the lock that found it.               *)
Taken(u) == Discard(u)

(* take_parse_upload.  An incomplete upload stays; a complete one belongs  *)
(* to this request from now on, whatever comes of the parse.               *)
Take(p, u) ==
    /\ parsing[p] = NoParse
    /\ \/ /\ uploads[u] = "expired"
          /\ Discard(u)
          /\ UNCHANGED <<parsing, takes>>
       \/ /\ uploads[u] = "kept" /\ stored[u] # NoDocument
          /\ Taken(u)
          /\ parsing' = [parsing EXCEPT ![p] = [upload |-> u, document |-> stored[u]]]
          /\ takes' = [takes EXCEPT ![u] = @ + 1]
    /\ UNCHANGED answer

(* A document in the request itself: multipart, or decoded from base64.    *)
TakeBody(p, d) ==
    /\ parsing[p] = NoParse
    /\ parsing' = [parsing EXCEPT ![p] = [upload |-> NoUpload, document |-> d]]
    /\ UNCHANGED <<uploads, stored, answer, takes>>

-----------------------------------------------------------------------------
(* parse_document_response.                                                *)

TriesLocally(d, o) == d.pdf /\ o.mode # "ocr" /\ o.onlyMarkdown

(* Text found in the process is the answer; no text is one in fast mode.   *)
KeepsLocal(d, o) == o.mode = "fast" \/ d.texts # {}

(* Who can answer.  A PDF the process cannot read is refused, not sent on. *)
Answers(d, o) ==
    CASE ~o.accepted -> {"refused"}
      [] o.accepted /\ TriesLocally(d, o) /\ ~d.readable -> {"refused"}
      [] o.accepted /\ TriesLocally(d, o) /\ d.readable /\ KeepsLocal(d, o) -> {"local"}
      [] OTHER -> {"engine", "failed"}

Parse(p, o) ==
    /\ parsing[p] # NoParse
    /\ \E by \in Answers(parsing[p].document, o) :
          answer' = [by |-> by, document |-> parsing[p].document, mode |-> o.mode]
    /\ parsing' = [parsing EXCEPT ![p] = NoParse]
    /\ UNCHANGED <<uploads, stored, takes>>

(* A restart forgets the uploads and drops the requests.                   *)
UploadsRestart ==
    /\ uploads' = [u \in Uploads |-> IF uploads[u] = "unused" THEN "unused" ELSE "absent"]
    /\ stored' = [u \in Uploads |-> NoDocument]
    /\ parsing' = [p \in Parsers |-> NoParse]
    /\ UNCHANGED <<answer, takes>>

UploadsInit ==
    /\ uploads = [u \in Uploads |-> "unused"]
    /\ stored = [u \in Uploads |-> NoDocument]
    /\ parsing = [p \in Parsers |-> NoParse]
    /\ answer = NoAnswerYet
    /\ takes = [u \in Uploads |-> 0]

UploadsNext ==
    \/ \E u \in Uploads :
          \/ MakeReference(u) \/ ReferenceExpires(u)
          \/ \E d \in Documents : Put(u, d)
          \/ \E p \in Parsers : Take(p, u)
    \/ \E p \in Parsers :
          \/ \E d \in Documents : TakeBody(p, d)
          \/ \E o \in Options : Parse(p, o)
    \/ UploadsRestart

UploadsSpec == UploadsInit /\ [][UploadsNext]_uploadVars

-----------------------------------------------------------------------------
(* An upload is handed to at most one parse, whichever requests name its   *)
(* reference at once and however often it was stored (take_parse_upload).  *)
TakenOnce == \A u \in Uploads : takes[u] <= 1
=============================================================================
