----------------------------- MODULE S3Download -----------------------------
(***************************************************************************)
(* One goroutine of s3.Gather: the objects of one profile, prefix by       *)
(* prefix and page by page, downloaded to files of the profile's           *)
(* directory, while others write to and delete from the bucket.  FanOut    *)
(* shows how the goroutines of several profiles end.                       *)
(*                                                                         *)
(* Keys are numbered in the order of a listing.  A key is split at its     *)
(* slashes into a path; a suffix .gz is kept apart from it.  The key of a  *)
(* folder ends with a slash, which filepath.Join drops.                    *)
(***************************************************************************)
EXTENDS Integers, Sequences, FiniteSets, FiniteSetsExt

CONSTANTS
  Keys,                   \* Keys[k]: the path, suffix, prefix and encoding of a key
  PrefixCount,               \* the number of prefixes to download
  PageSize,               \* the most keys a page of a listing has
  MaxChanges              \* bound: keys put or deleted during the download

ASSUME S3Assumption ==
  /\ Keys \in Seq([path : Seq(STRING) \ {<<>>}, gz : BOOLEAN, gzip : BOOLEAN,
                   prefix : 1..PrefixCount])
  /\ PrefixCount \in Nat \ {0} /\ PageSize \in Nat \ {0} /\ MaxChanges \in Nat

VARIABLES
  bucket,                 \* the keys the bucket has
  changed,                \* the keys that were put or deleted
  pc,                     \* the operation the goroutine is at
  prefix,                 \* the prefix it downloads
  last,                   \* the last key listed
  more,                   \* paginator.HasMorePages()
  page,                   \* the keys of the page that are left
  total, failed,          \* the counters of downloadObjects
  errs,                   \* the prefixes that failed
  dirs,                   \* the directories of the profile's directory
  files,                  \* its files: whose content each has, and if it is whole
  canceled,               \* the user pressed Ctrl-C
  faults,                 \* what failed: keys, prefixes that could not be listed
  result                  \* "none", "nil" or "error"

loop == <<prefix, last, more, page, total, failed, errs>>
disk == <<dirs, files>>
vars == <<bucket, changed, pc, loop, disk, canceled, faults, result>>

KeysOf(p) == {k \in DOMAIN Keys : Keys[k].prefix = p}

NoFaults == [keys |-> {}, prefixes |-> {}]

Init ==
  /\ bucket \in SUBSET DOMAIN Keys
  /\ changed = {}
  /\ pc = "client"
  /\ prefix = 1
  /\ last = 0 /\ more = TRUE /\ page = {} /\ total = 0 /\ failed = 0
  /\ errs = {}
  /\ dirs = {} /\ files = <<>>
  /\ canceled = FALSE
  /\ faults = NoFaults
  /\ result = "none"
-----------------------------------------------------------------------------
(* newObjectStore: a bad certificate or configuration ends the download.   *)
NewObjectStore ==
  /\ pc = "client"
  /\ \/ pc' = "prefix" /\ UNCHANGED <<loop, faults, result>>
     \/ /\ pc' = "done" /\ result' = "error"
        /\ errs' = 1..PrefixCount
        /\ faults' = [faults EXCEPT !.prefixes = 1..PrefixCount]
        /\ UNCHANGED <<prefix, last, more, page, total, failed>>
  /\ UNCHANGED <<bucket, changed, disk, canceled>>

(* Go on to the next prefix, or end with the errors of all of them. *)
NextPrefix(ok) ==
  LET failures == IF ok THEN errs ELSE errs \cup {prefix} IN
  /\ errs' = failures
  /\ last' = 0 /\ more' = TRUE /\ page' = {} /\ total' = 0 /\ failed' = 0
  /\ IF prefix < PrefixCount
     THEN prefix' = prefix + 1 /\ pc' = "prefix" /\ UNCHANGED result
     ELSE /\ pc' = "done"
          /\ result' = IF failures = {} THEN "nil" ELSE "error"
          /\ UNCHANGED prefix

(* A prefix whose listing, or directory, failed. *)
PrefixFails ==
  /\ faults' = [faults EXCEPT !.prefixes = @ \cup {prefix}]
  /\ NextPrefix(FALSE)

(* The profile's directory. *)
MakeProfileDir ==
  /\ pc = "prefix"
  /\ \/ /\ pc' = "list"
        /\ UNCHANGED <<loop, faults, result>>
     \/ PrefixFails
  /\ UNCHANGED <<bucket, changed, disk, canceled>>

(* The keys a listing of this prefix has not returned yet.  The service    *)
(* goes on behind the last key, whatever was put or deleted meanwhile.     *)
Remaining == {k \in bucket \cap KeysOf(prefix) : k > last}

(* The first ones of them, in the order of the listing. *)
NextKeys == {k \in Remaining : Cardinality({j \in Remaining : j <= k}) <= PageSize}

(* Faulty ListPage: only the first page is read. *)
ListFirstPage ==
  /\ page' = NextKeys
  /\ last' = Max(NextKeys \cup {last})
  /\ more' = FALSE

ListPage ==
  /\ page' = NextKeys
  /\ last' = Max(NextKeys \cup {last})
  /\ more' = (Cardinality(Remaining) > PageSize)

(* Faulty ListFails: the page is asked for again, as often as it fails. *)
ListAgain ==
  /\ faults' = [faults EXCEPT !.prefixes = @ \cup {prefix}]
  /\ UNCHANGED <<pc, loop, result>>

(* A page that cannot be listed ends this prefix, and only this one. *)
ListFails == PrefixFails

NextPage ==
  /\ pc = "list" /\ page = {} /\ more
  /\ \/ /\ ~canceled
        /\ ListPage
        /\ UNCHANGED <<pc, prefix, total, failed, errs, faults, result>>
     \/ ListFails
  /\ UNCHANGED <<bucket, changed, disk, canceled>>

(* All pages were listed: an empty listing, like a failed object, is an error. *)
EndPrefix ==
  /\ pc = "list" /\ page = {} /\ ~more
  /\ NextPrefix(total > 0 /\ failed = 0)
  /\ UNCHANGED <<bucket, changed, disk, canceled, faults>>
-----------------------------------------------------------------------------
(* downloadObject, and what the loop makes of its error.                   *)

(* The object the loop over the page is at. *)
Object == Min(page)

(* The file of an object.  It is named by its key, without the suffix .gz  *)
(* if the object is compressed and the head of its body could be read.     *)
FileName(k, read) ==
  [path |-> Keys[k].path, gz |-> Keys[k].gz /\ ~(Keys[k].gzip /\ read)]

Parents(file) == {SubSeq(file.path, 1, i) : i \in 1..(Len(file.path) - 1)}

(* A parent is a file, so that MkdirAll fails, or the file is a directory. *)
Blocked(file) ==
  \/ \E f \in DOMAIN files : ~f.gz /\ f.path \in Parents(file)
  \/ ~file.gz /\ file.path \in dirs

(* os.Create truncates a file of this name. *)
Write(file, k, whole) ==
  /\ dirs' = dirs \cup Parents(file)
  /\ files' = [f \in DOMAIN files \cup {file} |->
                  IF f = file THEN [of |-> k, whole |-> whole] ELSE files[f]]

ObjectDownloaded ==
  /\ pc' = "list"
  /\ page' = page \ {Object}
  /\ total' = total + 1
  /\ UNCHANGED <<prefix, last, more, failed, errs, result>>

(* Faulty ObjectFails: the first failed object ends the prefix. *)
ObjectFailsPrefix == NextPrefix(FALSE)

(* Faulty ObjectFails: a failed object is tried again. *)
ObjectRetried ==
  /\ pc' = "list"
  /\ total' = total + 1
  /\ failed' = failed + 1
  /\ UNCHANGED <<prefix, last, more, page, errs, result>>

(* A failed object is counted, and the loop goes on with the next one. *)
ObjectFails ==
  /\ pc' = "list"
  /\ page' = page \ {Object}
  /\ total' = total + 1
  /\ failed' = failed + 1
  /\ UNCHANGED <<prefix, last, more, errs, result>>

(* The request, the disk or the copy failed. *)
ObjectBroken ==
  /\ faults' = [faults EXCEPT !.keys = @ \cup {Object}]
  /\ ObjectFails

(* An object may be gone since it was listed. *)
GetObject ==
  /\ pc = "list" /\ page # {}
  /\ \/ /\ ~canceled /\ Object \in bucket
        /\ pc' = "write"
        /\ UNCHANGED <<loop, faults, result>>
     \/ ObjectBroken
  /\ UNCHANGED <<bucket, changed, disk, canceled>>

(* A copy that fails leaves the file it began.  One that fails in the head *)
(* of the body takes the object for one that is not compressed.            *)
WriteObject ==
  /\ pc = "write"
  /\ LET k == Object IN
     \/ /\ ~Blocked(FileName(k, TRUE))
        /\ Write(FileName(k, TRUE), k, TRUE)
        /\ ObjectDownloaded
        /\ UNCHANGED faults
     \/ \E read \in BOOLEAN :
          /\ ~Blocked(FileName(k, read))
          /\ Write(FileName(k, read), k, FALSE)
          /\ ObjectBroken
     \/ /\ Blocked(FileName(k, TRUE))
        /\ ObjectFails
        /\ UNCHANGED <<disk, faults>>
     \/ /\ ObjectBroken
        /\ UNCHANGED disk
  /\ UNCHANGED <<bucket, changed, canceled>>
-----------------------------------------------------------------------------
(* Ramen, or a user, puts or deletes an object: of a few keys, at any time.*)
Change ==
  /\ pc # "done"
  /\ \E k \in DOMAIN Keys :
       /\ Cardinality(changed \cup {k}) <= MaxChanges
       /\ changed' = changed \cup {k}
       /\ bucket' = IF k \in bucket THEN bucket \ {k} ELSE bucket \cup {k}
  /\ UNCHANGED <<pc, loop, disk, canceled, faults, result>>

Interrupt ==
  /\ pc # "done"
  /\ ~canceled
  /\ canceled' = TRUE
  /\ UNCHANGED <<bucket, changed, pc, loop, disk, faults, result>>

Download ==
  \/ NewObjectStore
  \/ MakeProfileDir
  \/ NextPage
  \/ EndPrefix
  \/ GetObject
  \/ WriteObject

Next == Download \/ Change \/ Interrupt

(* The goroutine runs, and its requests end, with an answer or an error. *)
Spec == Init /\ [][Next]_vars /\ WF_vars(Download)
-----------------------------------------------------------------------------
(* Values the variables range over.  An object is tried once per listing.  *)
TypeOK ==
  /\ bucket \subseteq DOMAIN Keys /\ changed \subseteq DOMAIN Keys
  /\ pc \in {"client", "prefix", "list", "write", "done"}
  /\ prefix \in 1..PrefixCount /\ errs \subseteq 1..PrefixCount
  /\ last \in 0..Len(Keys) /\ more \in BOOLEAN
  /\ page \subseteq KeysOf(prefix) \cap 1..last
  /\ failed \in 0..total
  /\ total + Cardinality(page) <= Cardinality(KeysOf(prefix))
  /\ dirs \cap {f.path : f \in {g \in DOMAIN files : ~g.gz}} = {}
  /\ faults.keys \subseteq DOMAIN Keys /\ faults.prefixes \subseteq errs
  /\ canceled \in BOOLEAN
  /\ result \in {"none", "nil", "error"}
  /\ pc = "done" <=> result # "none"

(* The objects that were in the bucket all the time. *)
Steady == bucket \ changed

(* Objects that the code gives one file. *)
SameFile(k) == {j \in DOMAIN Keys : FileName(j, TRUE) = FileName(k, TRUE)}

(* Objects whose file, or the part of one, may have the name of k's file.  *)
WritersOf(k) == {j \in DOMAIN Keys : FileName(k, TRUE) \in {FileName(j, TRUE), FileName(j, FALSE)}}

(* The object is on the disk, whole.  One of two objects of the same file  *)
(* is lost without a word.                                                 *)
OnDisk(k) ==
  \E f \in DOMAIN files :
    f = FileName(k, TRUE) /\ files[f].whole /\ files[f].of \in SameFile(k)

(* Nothing is missing or torn behind a nil: every object that was in the   *)
(* bucket all the time, on whatever page it was listed, is on the disk,    *)
(* and no file is the part of one.  (The caller records a passed step; the *)
(* failures of objects are counted in a loop that does not stop for them.) *)
NilIsComplete ==
  result = "nil" =>
    /\ \A k \in Steady : OnDisk(k)
    /\ \A f \in DOMAIN files : files[f].whole

(* The file of an object that was there is in the way of another one's. *)
InTheWay(k) ==
  \E j \in bucket \cup changed :
    LET f == FileName(j, TRUE)
        g == FileName(k, TRUE) IN
    \/ ~f.gz /\ f.path \in Parents(g)
    \/ ~g.gz /\ g.path \in Parents(f)

(* A failure costs only what failed: when the download ends, with an error *)
(* or not, every object that was there all the time is on the disk, unless *)
(* it failed itself (or one that wrote to its file), its prefix could not  *)
(* be listed, or its path is taken by another object's.  (Gathering is for *)
(* looking into a failure, in which some objects cannot be read.)          *)
FailuresAreLocal ==
  pc = "done" =>
    \A k \in Steady :
      \/ OnDisk(k)
      \/ WritersOf(k) \cap faults.keys # {}
      \/ Keys[k].prefix \in faults.prefixes
      \/ InTheWay(k)

(* The download ends, whatever fails and however often the bucket changes. *)
(* (A paginator whose request failed still has pages.)                     *)
Ends == <>(pc = "done")
=============================================================================
