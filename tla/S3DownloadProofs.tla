-------------------------- MODULE S3DownloadProofs --------------------------
(***************************************************************************)
(* For any keys, prefixes and page sizes, whoever changes the bucket: a    *)
(* download that answers nil misses no object, and a failure costs only    *)
(* what failed.                                                            *)
(*                                                                         *)
(* The argument: an object of a prefix that is done, or of the current one *)
(* up to the last key listed, was visited, unless it is still on the page. *)
(* An object that was there all the time is on the disk once it is visited,*)
(* or the reason why it is not is recorded; and when the listing has no    *)
(* more pages, no such object is behind the last key.                      *)
(***************************************************************************)
EXTENDS S3Download, FiniteSetTheorems, SequenceTheorems, WellFoundedInduction, TLAPS

(* The objects the download is through with. *)
Visited(k) ==
  \/ pc = "done"
  \/ Keys[k].prefix < prefix
  \/ Keys[k].prefix = prefix /\ k <= last /\ k \notin page

(* Why an object that was visited may be missing. *)
Excused(k) ==
  \/ OnDisk(k)
  \/ WritersOf(k) \cap faults.keys # {}
  \/ Keys[k].prefix \in faults.prefixes
  \/ InTheWay(k)

Existed == bucket \cup changed

TypeInv ==
  /\ bucket \subseteq DOMAIN Keys /\ changed \subseteq DOMAIN Keys
  /\ pc \in {"client", "prefix", "list", "write", "done"}
  /\ prefix \in 1..PrefixCount /\ errs \subseteq 1..PrefixCount
  /\ last \in 0..Len(Keys) /\ more \in BOOLEAN
  /\ page \subseteq KeysOf(prefix) \cap 1..last
  /\ total \in Nat /\ failed \in 0..total
  /\ faults \in [keys : SUBSET DOMAIN Keys, prefixes : SUBSET errs]
  /\ canceled \in BOOLEAN
  /\ result \in {"none", "nil", "error"}
  /\ pc = "done" <=> result # "none"

(* An object is counted once: the counter, and what is left of the page,   *)
(* are at most the keys that were listed.                                  *)
CountInv == total + Cardinality(page) <= Cardinality(KeysOf(prefix) \cap 1..last)

(* Where the loop is. *)
LoopInv ==
  /\ pc \in {"client", "prefix"} => more
  /\ pc = "write" => page # {} /\ Object \in Existed
  /\ pc \in {"list", "write"} /\ ~more => \A k \in Steady \cap KeysOf(prefix) : k <= last
  /\ result = "nil" => errs = {} /\ failed = 0

(* Files and directories come from objects that were there, and are not in *)
(* each other's way.                                                       *)
DiskInv ==
  /\ \A f \in DOMAIN files :
       /\ \E j \in Existed, read \in BOOLEAN : f = FileName(j, read)
       /\ files[f].of \in DOMAIN Keys /\ files[f].whole \in BOOLEAN
  /\ \A d \in dirs : \E j \in Existed : d \in Parents(FileName(j, TRUE))
  /\ \A f \in DOMAIN files : ~f.gz => f.path \notin dirs

(* As long as nothing failed, nothing is missing or torn. *)
CleanInv ==
  errs = {} /\ failed = 0 =>
    /\ \A k \in Steady : Visited(k) => OnDisk(k)
    /\ \A f \in DOMAIN files : files[f].whole

LocalInv == \A k \in Steady : Visited(k) => Excused(k)

IInv == TypeInv /\ CountInv /\ LoopInv /\ DiskInv /\ CleanInv /\ LocalInv

(***************************************************************************)
(* Lemmas about keys and numbers.                                          *)
(***************************************************************************)
LEMMA KeysFinite ==
  /\ Len(Keys) \in Nat /\ DOMAIN Keys = 1..Len(Keys)
  /\ IsFiniteSet(DOMAIN Keys)
  /\ \A S \in SUBSET DOMAIN Keys : IsFiniteSet(S) /\ Cardinality(S) \in Nat
<1>1. Len(Keys) \in Nat /\ DOMAIN Keys = 1..Len(Keys)
  BY S3Assumption, LenProperties
<1>2. IsFiniteSet(DOMAIN Keys)
  BY <1>1, FS_Interval
<1>. QED
  BY <1>1, <1>2, FS_Subset, FS_CardinalityType

LEMMA KeyType ==
  ASSUME NEW k \in DOMAIN Keys
  PROVE  /\ k \in Nat \ {0} /\ Keys[k].prefix \in 1..PrefixCount
         /\ Keys[k].path \in Seq(STRING) /\ Keys[k].gz \in BOOLEAN /\ Keys[k].gzip \in BOOLEAN
<1>1. k \in 1..Len(Keys) /\ Len(Keys) \in Nat
  BY KeysFinite
<1>2. Keys[k] \in [path : Seq(STRING) \ {<<>>}, gz : BOOLEAN, gzip : BOOLEAN,
                   prefix : 1..PrefixCount]
  BY <1>1, S3Assumption, ElementOfSeq
<1>. QED
  BY <1>1, <1>2

(* A set of naturals that is not empty has a smallest element. *)
LEMMA MinIsLeast ==
  ASSUME NEW S \in SUBSET Nat, S # {}
  PROVE  Min(S) \in S /\ \A y \in S : Min(S) <= y
<1>1. PICK m \in S : \A y \in S : ~ (<<y, m>> \in OpToRel(<, Nat))
  BY NatLessThanWellFounded, WFMin
<1>2. \A y \in S : y \in Nat /\ ~ (y < m)
  BY <1>1 DEF OpToRel
<1>3. \A y \in S : m <= y
  BY <1>2
<1>. QED
  BY <1>1, <1>3 DEF Min

(* One that is bounded has a largest one: the smallest distance to the     *)
(* bound.                                                                  *)
LEMMA MaxIsGreatest ==
  ASSUME NEW n \in Nat, NEW S \in SUBSET (0..n), S # {}
  PROVE  Max(S) \in S /\ \A y \in S : y <= Max(S)
<1>. DEFINE D == {n - x : x \in S}
<1>1. D \in SUBSET Nat /\ D # {}
  <2>1. \A x \in S : x \in Int /\ 0 <= x /\ x <= n
    OBVIOUS
  <2>2. \A d \in D : d \in Nat
    BY <2>1
  <2>3. PICK x : x \in S
    OBVIOUS
  <2>4. n - x \in D
    BY <2>3
  <2>. QED
    BY <2>2, <2>4
<1>2. Min(D) \in D /\ \A d \in D : Min(D) <= d
  BY <1>1, MinIsLeast
<1>3. PICK m \in S : Min(D) = n - m
  BY <1>2
<1>4. \A y \in S : n - m <= n - y
  BY <1>2, <1>3
<1>5. \A y \in S : m >= y
  BY <1>4
<1>. QED
  BY <1>3, <1>5 DEF Max

(* The page of a listing: what remains up to the last key of the page is   *)
(* on it, and all of it when it fits.                                      *)
LEMMA PageIsFirst ==
  ASSUME TypeInv
  PROVE  /\ NextKeys \subseteq Remaining /\ Remaining \subseteq DOMAIN Keys
         /\ Max(NextKeys \cup {last}) \in last..Len(Keys)
         /\ \A k \in NextKeys : last < k /\ k <= Max(NextKeys \cup {last})
         /\ \A k \in Remaining : k <= Max(NextKeys \cup {last}) => k \in NextKeys
         /\ ~(Cardinality(Remaining) > PageSize) => NextKeys = Remaining
<1>. DEFINE T == NextKeys \cup {last}
<1>1. /\ NextKeys \subseteq Remaining /\ Remaining \subseteq DOMAIN Keys
      /\ \A k \in Remaining : k \in Nat /\ last < k
      /\ last \in Nat /\ last <= Len(Keys)
  BY KeysFinite DEF TypeInv, NextKeys, Remaining, KeysOf
<1>2. T \in SUBSET (0..Len(Keys)) /\ T # {}
  BY <1>1, KeysFinite
<1>3. Max(T) \in T /\ \A y \in T : y <= Max(T)
  BY <1>2, KeysFinite, MaxIsGreatest
<1>4. Max(T) \in last..Len(Keys)
  BY <1>1, <1>2, <1>3, KeysFinite
<1>5. ASSUME NEW k \in Remaining, k <= Max(T)
      PROVE  k \in NextKeys
  <2>. DEFINE m == Max(T)
  <2>1. m \in NextKeys
    BY <1>1, <1>3, <1>4, <1>5
  <2>. DEFINE A == {j \in Remaining : j <= k}
              B == {j \in Remaining : j <= m}
  <2>2. A \subseteq B
    BY <1>1, <1>4, <1>5
  <2>3. Cardinality(A) <= Cardinality(B) /\ Cardinality(A) \in Nat /\ Cardinality(B) \in Nat
    BY <1>1, <2>2, KeysFinite, FS_Subset
  <2>4. Cardinality(B) <= PageSize
    BY <2>1 DEF NextKeys
  <2>5. Cardinality(A) <= PageSize
    BY <2>3, <2>4, S3Assumption
  <2>. QED
    BY <2>5 DEF NextKeys
<1>6. ASSUME ~(Cardinality(Remaining) > PageSize), NEW k \in Remaining
      PROVE  k \in NextKeys
  <2>. DEFINE A == {j \in Remaining : j <= k}
  <2>1. Cardinality(A) <= Cardinality(Remaining)
        /\ Cardinality(A) \in Nat /\ Cardinality(Remaining) \in Nat
    BY <1>1, KeysFinite, FS_Subset
  <2>2. Cardinality(A) <= PageSize
    BY <1>6, <2>1, S3Assumption
  <2>. QED
    BY <2>2 DEF NextKeys
<1>. QED
  BY <1>1, <1>3, <1>4, <1>5, <1>6

(* The object that is next. *)
LEMMA ObjectOnPage ==
  ASSUME TypeInv, page # {}
  PROVE  Object \in page /\ Object \in DOMAIN Keys /\ Keys[Object].prefix = prefix
<1>1. page \in SUBSET Nat /\ page \subseteq DOMAIN Keys
  BY KeysFinite DEF TypeInv, KeysOf
<1>2. Object \in page
  BY <1>1, MinIsLeast DEF Object
<1>. QED
  BY <1>1, <1>2 DEF TypeInv, KeysOf

LEMMA InitIInv == Init => IInv
<1>. SUFFICES ASSUME Init PROVE IInv
  OBVIOUS
<1>1. TypeInv
  <2>1. faults \in [keys : SUBSET DOMAIN Keys, prefixes : SUBSET errs]
    BY DEF Init, NoFaults
  <2>2. prefix \in 1..PrefixCount /\ last \in 0..Len(Keys) /\ total \in Nat /\ failed \in 0..total
    BY S3Assumption, KeysFinite DEF Init
  <2>. QED
    BY <2>1, <2>2 DEF Init, TypeInv
<1>2. CountInv
  <2>1. Cardinality({}) = 0 /\ KeysOf(prefix) \cap 1..last \in SUBSET DOMAIN Keys
    BY FS_EmptySet DEF KeysOf
  <2>. QED
    BY <2>1, KeysFinite DEF Init, CountInv
<1>3. \A k \in DOMAIN Keys : ~Visited(k)
  BY S3Assumption, KeyType DEF Init, Visited
<1>4. Steady \subseteq DOMAIN Keys
  BY <1>1 DEF TypeInv, Steady
<1>5. LoopInv /\ DiskInv
  BY DEF Init, LoopInv, DiskInv
<1>6. CleanInv /\ LocalInv
  BY <1>3, <1>4 DEF Init, CleanInv, LocalInv
<1>. QED
  BY <1>1, <1>2, <1>5, <1>6 DEF IInv

(***************************************************************************)
(* Steps of the loop.                                                      *)
(***************************************************************************)
(* What keeps an excuse. *)
LEMMA ExcuseKept ==
  ASSUME NEW k, Excused(k), OnDisk(k) => OnDisk(k)' \/ WritersOf(k) \cap faults'.keys # {},
         faults.keys \subseteq faults'.keys, faults.prefixes \subseteq faults'.prefixes,
         Existed \subseteq Existed'
  PROVE  Excused(k)'
<1>1. WritersOf(k)' = WritersOf(k) /\ (InTheWay(k) => InTheWay(k)')
  BY DEF WritersOf, InTheWay, Existed, FileName, Parents
<1>. QED
  BY <1>1 DEF Excused

(* The loop goes on to the next prefix, or ends. *)
LEMMA PrefixDone ==
  ASSUME IInv, NEW ok \in BOOLEAN, NextPrefix(ok), pc \in {"prefix", "list"},
         UNCHANGED <<bucket, changed, disk, canceled>>,
         ok => failed = 0,
         \/ faults' = faults
         \/ ~ok /\ faults' = [faults EXCEPT !.prefixes = @ \cup {prefix}],
         \A k \in Steady \cap KeysOf(prefix) : Visited(k) \/ prefix \in faults'.prefixes
  PROVE  IInv'
<1>. DEFINE failures == IF ok THEN errs ELSE errs \cup {prefix}
<1>1. /\ errs' = failures /\ last' = 0 /\ more' = TRUE /\ page' = {}
      /\ total' = 0 /\ failed' = 0
      /\ \/ prefix < PrefixCount /\ prefix' = prefix + 1 /\ pc' = "prefix" /\ result' = result
         \/ /\ ~(prefix < PrefixCount) /\ pc' = "done" /\ prefix' = prefix
            /\ result' = IF failures = {} THEN "nil" ELSE "error"
  BY DEF NextPrefix
<1>2. /\ faults'.keys = faults.keys /\ faults.prefixes \subseteq faults'.prefixes
      /\ faults'.prefixes \subseteq failures
      /\ faults' \in [keys : SUBSET DOMAIN Keys, prefixes : SUBSET failures]
  BY DEF IInv, TypeInv
<1>3. bucket' = bucket /\ changed' = changed /\ dirs' = dirs /\ files' = files
  BY DEF disk
<1>4. TypeInv'
  <2>1. prefix' \in 1..PrefixCount
    BY <1>1, S3Assumption DEF IInv, TypeInv
  <2>2. errs' \subseteq 1..PrefixCount
    BY <1>1 DEF IInv, TypeInv
  <2>3. result' \in {"none", "nil", "error"} /\ (pc' = "done" <=> result' # "none")
    BY <1>1 DEF IInv, TypeInv
  <2>. HIDE DEF failures
  <2>. QED
    BY <1>1, <1>2, <1>3, <2>1, <2>2, <2>3, KeysFinite DEF IInv, TypeInv
<1>5. CountInv'
  <2>1. Cardinality({}) = 0 /\ KeysOf(prefix)' \cap 1..last' \in SUBSET DOMAIN Keys
    BY FS_EmptySet DEF KeysOf
  <2>. QED
    BY <1>1, <2>1, KeysFinite DEF CountInv
<1>6. LoopInv'
  BY <1>1 DEF LoopInv, IInv, TypeInv
<1>7. DiskInv'
  BY <1>3 DEF IInv, DiskInv, Existed, FileName, Parents
<1>8. Steady' = Steady /\ Existed' = Existed /\ Steady \subseteq DOMAIN Keys
  BY <1>3 DEF Steady, Existed, IInv, TypeInv
<1>9. ASSUME NEW k \in Steady, Visited(k)'
      PROVE  Visited(k) \/ (prefix \in faults'.prefixes /\ Keys[k].prefix = prefix)
  <2>1. k \in DOMAIN Keys /\ Keys[k].prefix \in 1..PrefixCount /\ k \in Nat \ {0}
    BY <1>8, KeyType
  <2>2. Keys[k].prefix <= prefix
    BY <1>1, <1>9, <2>1, S3Assumption DEF Visited, IInv, TypeInv
  <2>3. CASE Keys[k].prefix = prefix
    BY <2>1, <2>3 DEF KeysOf
  <2>4. CASE Keys[k].prefix # prefix
    <3>1. Keys[k].prefix < prefix
      BY <2>1, <2>2, <2>4 DEF IInv, TypeInv
    <3>. QED
      BY <3>1 DEF Visited
  <2>. QED
    BY <2>3, <2>4
<1>10. \A k : OnDisk(k)' = OnDisk(k)
  BY <1>3 DEF OnDisk, SameFile, FileName
<1>11. CleanInv'
  <2>. SUFFICES ASSUME errs' = {}
                PROVE  /\ \A k \in Steady : Visited(k)' => OnDisk(k)
                       /\ \A f \in DOMAIN files : files[f].whole
    BY <1>3, <1>8, <1>10 DEF CleanInv
  <2>1. ok /\ errs = {} /\ failed = 0 /\ faults'.prefixes = {}
    BY <1>1, <1>2
  <2>. QED
    BY <1>9, <2>1 DEF IInv, CleanInv
<1>12. LocalInv'
  <2>. SUFFICES ASSUME NEW k \in Steady, Visited(k)' PROVE Excused(k)'
    BY <1>8 DEF LocalInv
  <2>1. CASE Visited(k)
    <3>1. Excused(k)
      BY <2>1 DEF IInv, LocalInv
    <3>. QED
      BY <3>1, <1>2, <1>8, <1>10, ExcuseKept
  <2>2. CASE prefix \in faults'.prefixes /\ Keys[k].prefix = prefix
    BY <2>2 DEF Excused
  <2>. QED
    BY <1>9, <2>1, <2>2
<1>. QED
  BY <1>4, <1>5, <1>6, <1>7, <1>11, <1>12 DEF IInv

(* A page is listed. *)
LEMMA PageListed ==
  ASSUME IInv, pc = "list", page = {}, ListPage,
         UNCHANGED <<bucket, changed, disk, canceled, pc, prefix, total, failed, errs, faults,
                     result>>
  PROVE  IInv'
<1>. DEFINE to == Max(NextKeys \cup {last})
<1>1. /\ NextKeys \subseteq Remaining /\ Remaining \subseteq DOMAIN Keys
      /\ to \in last..Len(Keys)
      /\ \A k \in NextKeys : last < k /\ k <= to
      /\ \A k \in Remaining : k <= to => k \in NextKeys
      /\ ~(Cardinality(Remaining) > PageSize) => NextKeys = Remaining
  BY PageIsFirst DEF IInv
<1>2. /\ page' = NextKeys /\ last' = to /\ more' = (Cardinality(Remaining) > PageSize)
      /\ pc' = pc /\ prefix' = prefix /\ total' = total /\ failed' = failed
      /\ errs' = errs /\ faults' = faults /\ result' = result
      /\ bucket' = bucket /\ changed' = changed /\ dirs' = dirs /\ files' = files
      /\ canceled' = canceled
  BY DEF ListPage, disk
<1>. HIDE DEF to
<1>3. /\ last \in 0..Len(Keys) /\ Len(Keys) \in Nat /\ to \in 0..Len(Keys) /\ last <= to
      /\ DOMAIN Keys = 1..Len(Keys)
  BY <1>1, KeysFinite DEF IInv, TypeInv
<1>4. NextKeys \subseteq KeysOf(prefix) \cap 1..to
  BY <1>1, <1>3 DEF Remaining, KeysOf
<1>5. TypeInv'
  BY <1>2, <1>3, <1>4 DEF IInv, TypeInv, KeysOf
<1>6. CountInv'
  <2>. DEFINE old == KeysOf(prefix) \cap 1..last
              new == KeysOf(prefix) \cap 1..to
  <2>1. old \cup NextKeys \subseteq new /\ old \cap NextKeys = {} /\ new \subseteq DOMAIN Keys
    BY <1>1, <1>3, <1>4 DEF KeysOf
  <2>. HIDE DEF old, new
  <2>2. /\ IsFiniteSet(old) /\ IsFiniteSet(NextKeys) /\ IsFiniteSet(new)
        /\ Cardinality(old) \in Nat /\ Cardinality(NextKeys) \in Nat
        /\ Cardinality(old \cup NextKeys) \in Nat /\ Cardinality(new) \in Nat
        /\ Cardinality(old \cap NextKeys) = 0
    BY <2>1, <1>1, KeysFinite, FS_EmptySet
  <2>3. Cardinality(old \cup NextKeys) = Cardinality(old) + Cardinality(NextKeys)
    <3>1. Cardinality(old \cup NextKeys) =
            Cardinality(old) + Cardinality(NextKeys) - Cardinality(old \cap NextKeys)
      BY <2>2, FS_Union
    <3>. QED
      BY <2>2, <3>1
  <2>4. Cardinality(old \cup NextKeys) <= Cardinality(new)
    BY <2>1, <2>2, FS_Subset
  <2>5. total <= Cardinality(old) /\ total \in Nat
    BY FS_EmptySet, <2>2 DEF old, IInv, CountInv, TypeInv
  <2>6. total + Cardinality(NextKeys) <= Cardinality(new)
    BY <2>2, <2>3, <2>4, <2>5
  <2>. QED
    BY <1>2, <2>6 DEF CountInv, new, KeysOf
<1>7. Steady' = Steady /\ Existed' = Existed /\ Steady \subseteq DOMAIN Keys /\ Steady \subseteq bucket
  BY <1>2 DEF Steady, Existed, IInv, TypeInv
<1>8. ASSUME NEW k \in Steady \cap KeysOf(prefix), k > last PROVE k \in Remaining
  BY <1>7, <1>8 DEF Remaining
<1>9. LoopInv'
  <2>1. ASSUME ~more', NEW k \in Steady \cap KeysOf(prefix) PROVE k <= last'
    <3>1. NextKeys = Remaining
      BY <1>1, <1>2, <2>1
    <3>2. k \in 1..Len(Keys)
      BY <1>3, <1>7
    <3>3. CASE k <= last
      BY <1>2, <1>3, <3>2, <3>3
    <3>4. CASE k > last
      BY <1>1, <1>2, <1>8, <3>1, <3>4
    <3>. QED
      BY <1>3, <3>2, <3>3, <3>4
  <2>2. KeysOf(prefix)' = KeysOf(prefix)
    BY <1>2 DEF KeysOf
  <2>. QED
    BY <1>2, <1>7, <2>1, <2>2 DEF IInv, LoopInv
<1>10. DiskInv'
  BY <1>2 DEF IInv, DiskInv, Existed, FileName, Parents
<1>11. ASSUME NEW k \in Steady, Visited(k)' PROVE Visited(k)
  <2>1. CASE Keys[k].prefix = prefix /\ k <= to /\ k \notin NextKeys
    <3>1. k \in KeysOf(prefix) /\ k \in 1..Len(Keys)
      BY <1>3, <1>7, <2>1 DEF KeysOf
    <3>2. ~(k > last)
      BY <1>1, <1>8, <2>1, <3>1
    <3>3. k <= last
      BY <1>3, <3>1, <3>2
    <3>. QED
      BY <2>1, <3>3 DEF Visited
  <2>. QED
    BY <1>2, <1>11, <2>1 DEF Visited
<1>12. \A k : OnDisk(k)' = OnDisk(k)
  BY <1>2 DEF OnDisk, SameFile, FileName
<1>13. CleanInv'
  BY <1>2, <1>7, <1>11, <1>12 DEF IInv, CleanInv
<1>14. LocalInv'
  <2>. SUFFICES ASSUME NEW k \in Steady, Visited(k)' PROVE Excused(k)'
    BY <1>7 DEF LocalInv
  <2>1. Excused(k)
    BY <1>11 DEF IInv, LocalInv
  <2>. QED
    BY <2>1, <1>2, <1>7, <1>12, ExcuseKept
<1>. QED
  BY <1>5, <1>6, <1>9, <1>10, <1>13, <1>14 DEF IInv

(* The loop over the page goes on behind an object. *)
Behind ==
  /\ pc' = "list"
  /\ page' = page \ {Object}
  /\ total' = total + 1
  /\ failed' \in {failed, failed + 1}
  /\ UNCHANGED <<bucket, changed, canceled, prefix, last, more, errs, result>>
  /\ \/ faults' = faults
     \/ failed' = failed + 1 /\ faults' = [faults EXCEPT !.keys = @ \cup {Object}]

LEMMA ObjectBehind ==
  ASSUME IInv, pc \in {"list", "write"}, page # {}, Behind
  PROVE  /\ TypeInv' /\ CountInv' /\ LoopInv'
         /\ Steady' = Steady /\ Existed' = Existed /\ Steady \subseteq DOMAIN Keys
         /\ faults.keys \subseteq faults'.keys /\ faults'.prefixes = faults.prefixes
         /\ faults' # faults => Object \in faults'.keys
         /\ \A k \in Steady : Visited(k)' => Visited(k) \/ k = Object
<1>1. Object \in page /\ Object \in DOMAIN Keys
  BY ObjectOnPage DEF IInv
<1>2. /\ faults' \in [keys : SUBSET DOMAIN Keys, prefixes : SUBSET errs]
      /\ faults.keys \subseteq faults'.keys /\ faults'.prefixes = faults.prefixes
      /\ faults' # faults => Object \in faults'.keys
  <2>1. CASE faults' = faults
    BY <2>1 DEF IInv, TypeInv
  <2>2. CASE faults' = [faults EXCEPT !.keys = @ \cup {Object}]
    BY <1>1, <2>2 DEF IInv, TypeInv
  <2>. QED
    BY <2>1, <2>2 DEF Behind
<1>3. TypeInv'
  <2>1. total' \in Nat /\ failed' \in 0..total'
    BY DEF Behind, IInv, TypeInv
  <2>2. page' \subseteq KeysOf(prefix') \cap 1..last'
    BY DEF Behind, IInv, TypeInv
  <2>3. pc' = "done" <=> result' # "none"
    BY DEF Behind, IInv, TypeInv
  <2>. QED
    BY <1>2, <2>1, <2>2, <2>3 DEF Behind, IInv, TypeInv
<1>4. CountInv'
  <2>1. page \in SUBSET DOMAIN Keys /\ KeysOf(prefix) \cap 1..last \in SUBSET DOMAIN Keys
    BY DEF IInv, TypeInv, KeysOf
  <2>2. /\ IsFiniteSet(page) /\ Cardinality(page) \in Nat
        /\ Cardinality(page \ {Object}) = Cardinality(page) - 1
        /\ Cardinality(KeysOf(prefix) \cap 1..last) \in Nat
    BY <1>1, <2>1, KeysFinite, FS_RemoveElement
  <2>3. total' + Cardinality(page \ {Object}) <= Cardinality(KeysOf(prefix) \cap 1..last)
    BY <2>2 DEF Behind, IInv, CountInv, TypeInv
  <2>4. page' = page \ {Object} /\ prefix' = prefix /\ last' = last
    BY DEF Behind
  <2>. QED
    BY <2>3, <2>4 DEF CountInv, KeysOf
<1>5. Steady' = Steady /\ Existed' = Existed /\ Steady \subseteq DOMAIN Keys
  BY DEF Behind, Steady, Existed, IInv, TypeInv
<1>6. LoopInv'
  BY <1>5 DEF Behind, IInv, LoopInv, TypeInv, KeysOf
<1>7. \A k \in Steady : Visited(k)' => Visited(k) \/ k = Object
  BY DEF Behind, Visited
<1>. QED
  BY <1>2, <1>3, <1>4, <1>5, <1>6, <1>7

(***************************************************************************)
(* Lemmas about files.                                                     *)
(***************************************************************************)
(* A file that is in the way was written by an object that is in the way.  *)
LEMMA BlockedIsInTheWay ==
  ASSUME DiskInv, NEW k, Blocked(FileName(k, TRUE))
  PROVE  InTheWay(k)
<1>. DEFINE g == FileName(k, TRUE)
<1>1. CASE \E f \in DOMAIN files : ~f.gz /\ f.path \in Parents(g)
  <2>1. PICK f \in DOMAIN files : ~f.gz /\ f.path \in Parents(g)
    BY <1>1
  <2>2. PICK j \in Existed, read \in BOOLEAN : f = FileName(j, read)
    BY DEF DiskInv
  <2>3. FileName(j, TRUE).path = f.path /\ ~FileName(j, TRUE).gz
    BY <2>1, <2>2 DEF FileName
  <2>. HIDE DEF g
  <2>. QED
    BY <2>1, <2>3 DEF InTheWay, Existed, g
<1>2. CASE ~g.gz /\ g.path \in dirs
  <2>1. PICK j \in Existed : g.path \in Parents(FileName(j, TRUE))
    BY <1>2 DEF DiskInv
  <2>. QED
    BY <1>2, <2>1 DEF InTheWay, Existed
<1>. QED
  BY <1>1, <1>2 DEF Blocked

(* Writing a file that is not blocked keeps files and directories apart,   *)
(* and takes away only files of its own name.                              *)
LEMMA FileWritten ==
  ASSUME IInv, NEW j \in Existed, NEW read \in BOOLEAN, NEW whole \in BOOLEAN,
         ~Blocked(FileName(j, read)), Write(FileName(j, read), j, whole),
         UNCHANGED <<bucket, changed>>
  PROVE  /\ DiskInv'
         /\ \A k : OnDisk(k) => OnDisk(k)' \/ FileName(k, TRUE) = FileName(j, read)
         /\ read /\ whole => \A k : OnDisk(k) \/ k = j => OnDisk(k)'
         /\ whole /\ (\A f \in DOMAIN files : files[f].whole) =>
              \A f \in DOMAIN files' : files'[f].whole
<1>. DEFINE file == FileName(j, read)
<1>1. /\ dirs' = dirs \cup Parents(file)
      /\ DOMAIN files' = DOMAIN files \cup {file}
      /\ files'[file] = [of |-> j, whole |-> whole]
      /\ \A f \in DOMAIN files : f # file => files'[f] = files[f]
  BY DEF Write
<1>2. /\ \A f \in DOMAIN files : ~f.gz => f.path \notin Parents(file)
      /\ ~file.gz => file.path \notin dirs
  BY DEF Blocked
<1>3. j \in DOMAIN Keys
  BY DEF Existed, IInv, TypeInv
<1>4. file.path = Keys[j].path /\ Parents(file) = Parents(FileName(j, TRUE))
  BY DEF FileName, Parents
<1>5. file.path \notin Parents(file)
  <2>1. Keys[j].path \in Seq(STRING)
    BY <1>3, KeyType
  <2>2. Len(Keys[j].path) \in Nat
    BY <2>1, LenProperties
  <2>3. ASSUME NEW i \in 1..(Len(Keys[j].path) - 1)
        PROVE  Len(SubSeq(Keys[j].path, 1, i)) # Len(Keys[j].path)
    <3>1. Len(SubSeq(Keys[j].path, 1, i)) = i
      BY <2>1, <2>2, SubSeqProperties
    <3>. QED
      BY <2>2, <3>1
  <2>. HIDE DEF file
  <2>. QED
    BY <1>4, <2>3 DEF Parents
<1>6. Existed' = Existed /\ \A k, r : FileName(k, r)' = FileName(k, r)
  BY DEF Existed, FileName
<1>. HIDE DEF file
<1>7. DiskInv'
  <2>1. ASSUME NEW f \in DOMAIN files'
        PROVE  /\ \E i \in Existed, r \in BOOLEAN : f = FileName(i, r)
               /\ files'[f].of \in DOMAIN Keys /\ files'[f].whole \in BOOLEAN
               /\ ~f.gz => f.path \notin dirs'
    <3>1. CASE f = file
      BY <3>1, <1>1, <1>2, <1>3, <1>5 DEF file
    <3>2. CASE f # file
      <4>1. f \in DOMAIN files /\ files'[f] = files[f]
        BY <1>1, <3>2
      <4>. QED
        BY <4>1, <1>1, <1>2 DEF IInv, DiskInv
    <3>. QED
      BY <3>1, <3>2
  <2>2. ASSUME NEW d \in dirs' PROVE \E i \in Existed : d \in Parents(FileName(i, TRUE))
    BY <1>1, <1>4 DEF IInv, DiskInv
  <2>3. \A f : Parents(f)' = Parents(f)
    BY DEF Parents
  <2>. QED
    BY <1>6, <2>1, <2>2, <2>3 DEF DiskInv
<1>8. \A k : SameFile(k)' = SameFile(k)
  BY DEF SameFile, FileName
<1>9. ASSUME NEW k, OnDisk(k), FileName(k, TRUE) # file PROVE OnDisk(k)'
  BY <1>1, <1>6, <1>8, <1>9 DEF OnDisk
<1>10. ASSUME read, whole, NEW k, OnDisk(k) \/ k = j, FileName(k, TRUE) = file PROVE OnDisk(k)'
  <2>1. j \in SameFile(k)
    BY <1>3, <1>10 DEF SameFile, file
  <2>2. file \in DOMAIN files' /\ files'[file].whole /\ files'[file].of = j
    BY <1>1, <1>10
  <2>. QED
    BY <1>6, <1>8, <1>10, <2>1, <2>2 DEF OnDisk
<1>11. whole /\ (\A f \in DOMAIN files : files[f].whole) => \A f \in DOMAIN files' : files'[f].whole
  BY <1>1
<1>12. read => FileName(j, TRUE) = file
  BY DEF file
<1>. QED
  BY <1>7, <1>9, <1>10, <1>11, <1>12 DEF file

(***************************************************************************)
(* The actions.                                                            *)
(***************************************************************************)
(* A step that leaves the loop and the disk alone. *)
LEMMA NothingVisited ==
  ASSUME IInv, pc # "done", pc' # "done", UNCHANGED <<loop, disk, faults, result>>,
         TypeInv', LoopInv', Steady' \subseteq Steady, Existed \subseteq Existed'
  PROVE  IInv'
<1>1. /\ prefix' = prefix /\ last' = last /\ page' = page /\ total' = total /\ failed' = failed
      /\ errs' = errs /\ dirs' = dirs /\ files' = files /\ faults' = faults
  BY DEF loop, disk
<1>2. CountInv'
  BY <1>1 DEF IInv, CountInv, KeysOf
<1>3. DiskInv'
  <2>1. \A k, r : FileName(k, r)' = FileName(k, r) /\ Parents(FileName(k, r))' = Parents(FileName(k, r))
    BY DEF FileName, Parents
  <2>. QED
    BY <1>1, <2>1 DEF IInv, DiskInv
<1>4. \A k : OnDisk(k)' = OnDisk(k) /\ Visited(k)' = Visited(k)
  BY <1>1 DEF OnDisk, SameFile, FileName, Visited
<1>5. CleanInv'
  BY <1>1, <1>4 DEF IInv, CleanInv
<1>6. LocalInv'
  <2>. SUFFICES ASSUME NEW k \in Steady', Visited(k)' PROVE Excused(k)'
    BY DEF LocalInv
  <2>1. Excused(k)
    BY <1>4 DEF IInv, LocalInv
  <2>. QED
    BY <2>1, <1>1, <1>4, ExcuseKept
<1>. QED
  BY <1>2, <1>3, <1>5, <1>6 DEF IInv

LEMMA NewObjectStoreIInv ==
  ASSUME IInv, NewObjectStore
  PROVE  IInv'
<1>1. /\ pc = "client" /\ bucket' = bucket /\ changed' = changed /\ dirs' = dirs /\ files' = files
      /\ canceled' = canceled /\ disk' = disk
  BY DEF NewObjectStore, disk
<1>2. Steady' = Steady /\ Existed' = Existed /\ Steady \subseteq DOMAIN Keys
  BY <1>1 DEF Steady, Existed, IInv, TypeInv
<1>3. CASE pc' = "prefix" /\ UNCHANGED <<loop, faults, result>>
  <2>1. TypeInv'
    BY <1>1, <1>3 DEF IInv, TypeInv, loop, KeysOf
  <2>2. LoopInv'
    BY <1>1, <1>3 DEF IInv, LoopInv, TypeInv, loop
  <2>. QED
    BY <1>1, <1>2, <1>3, <2>1, <2>2, NothingVisited
<1>4. CASE /\ pc' = "done" /\ result' = "error" /\ errs' = 1..PrefixCount
           /\ faults' = [faults EXCEPT !.prefixes = 1..PrefixCount]
           /\ UNCHANGED <<prefix, last, more, page, total, failed>>
  <2>1. faults' \in [keys : SUBSET DOMAIN Keys, prefixes : SUBSET errs']
        /\ faults'.prefixes = 1..PrefixCount
    BY <1>4 DEF IInv, TypeInv
  <2>2. TypeInv'
    BY <1>1, <1>4, <2>1 DEF IInv, TypeInv, KeysOf
  <2>3. CountInv'
    BY <1>4 DEF IInv, CountInv, KeysOf
  <2>4. LoopInv'
    BY <1>4 DEF LoopInv
  <2>5. DiskInv'
    BY <1>1, <1>2 DEF IInv, DiskInv, FileName, Parents
  <2>6. CleanInv'
    BY <1>4, S3Assumption DEF CleanInv
  <2>7. LocalInv'
    BY <1>2, <2>1, KeyType DEF LocalInv, Excused
  <2>. QED
    BY <2>2, <2>3, <2>4, <2>5, <2>6, <2>7 DEF IInv
<1>. QED
  BY <1>3, <1>4 DEF NewObjectStore

(* A prefix whose directory or listing failed. *)
LEMMA PrefixFailsIInv ==
  ASSUME IInv, PrefixFails, pc \in {"prefix", "list"}, UNCHANGED <<bucket, changed, disk, canceled>>
  PROVE  IInv'
<1>1. faults' = [faults EXCEPT !.prefixes = @ \cup {prefix}] /\ NextPrefix(FALSE)
  BY DEF PrefixFails
<1>2. prefix \in faults'.prefixes
  BY <1>1 DEF IInv, TypeInv
<1>. QED
  BY <1>1, <1>2, PrefixDone

LEMMA MakeProfileDirIInv ==
  ASSUME IInv, MakeProfileDir
  PROVE  IInv'
<1>1. CASE PrefixFails
  BY <1>1, PrefixFailsIInv DEF MakeProfileDir
<1>2. CASE pc' = "list" /\ UNCHANGED <<loop, faults, result>>
  <2>1. pc = "prefix" /\ UNCHANGED <<bucket, changed, disk, canceled>>
    BY DEF MakeProfileDir
  <2>2. TypeInv'
    BY <1>2, <2>1 DEF IInv, TypeInv, loop, KeysOf
  <2>3. LoopInv'
    BY <1>2, <2>1 DEF IInv, LoopInv, TypeInv, loop
  <2>4. Steady' = Steady /\ Existed' = Existed
    BY <2>1 DEF Steady, Existed
  <2>. QED
    BY <1>2, <2>1, <2>2, <2>3, <2>4, NothingVisited
<1>. QED
  BY <1>1, <1>2 DEF MakeProfileDir

LEMMA NextPageIInv ==
  ASSUME IInv, NextPage
  PROVE  IInv'
<1>1. CASE ListFails
  BY <1>1, PrefixFailsIInv DEF NextPage, ListFails
<1>2. CASE ListPage /\ UNCHANGED <<pc, prefix, total, failed, errs, faults, result>>
  BY <1>2, PageListed DEF NextPage
<1>. QED
  BY <1>1, <1>2 DEF NextPage

LEMMA EndPrefixIInv ==
  ASSUME IInv, EndPrefix
  PROVE  IInv'
<1>. DEFINE ok == total > 0 /\ failed = 0
<1>1. /\ pc = "list" /\ page = {} /\ ~more /\ NextPrefix(ok) /\ faults' = faults
      /\ UNCHANGED <<bucket, changed, disk, canceled>>
  BY DEF EndPrefix
<1>2. ok \in BOOLEAN /\ (ok => failed = 0)
  OBVIOUS
<1>3. \A k \in Steady \cap KeysOf(prefix) : Visited(k)
  BY <1>1 DEF IInv, LoopInv, Visited, KeysOf
<1>. HIDE DEF ok
<1>. QED
  BY <1>1, <1>2, <1>3, PrefixDone
-----------------------------------------------------------------------------
(* An object was not downloaded: what it excuses is its own absence, and   *)
(* that of an object whose file it tore.                                   *)
LEMMA ObjectMissing ==
  ASSUME IInv, pc \in {"list", "write"}, page # {}, Behind, failed' = failed + 1, DiskInv',
         \A k : OnDisk(k) => OnDisk(k)' \/ WritersOf(k) \cap faults'.keys # {},
         InTheWay(Object) \/ Object \in faults'.keys
  PROVE  IInv'
<1>1. /\ TypeInv' /\ CountInv' /\ LoopInv'
      /\ Steady' = Steady /\ Existed' = Existed /\ Steady \subseteq DOMAIN Keys
      /\ faults.keys \subseteq faults'.keys /\ faults'.prefixes = faults.prefixes
      /\ \A k \in Steady : Visited(k)' => Visited(k) \/ k = Object
  BY ObjectBehind
<1>2. CleanInv'
  BY DEF CleanInv, IInv, TypeInv
<1>3. LocalInv'
  <2>. SUFFICES ASSUME NEW k \in Steady, Visited(k)' PROVE Excused(k)'
    BY <1>1 DEF LocalInv
  <2>1. CASE Visited(k)
    <3>1. Excused(k)
      BY <2>1 DEF IInv, LocalInv
    <3>. QED
      BY <3>1, <1>1, ExcuseKept
  <2>2. CASE k = Object /\ Object \in faults'.keys
    <3>1. k \in WritersOf(k)
      BY <1>1 DEF WritersOf
    <3>2. WritersOf(k)' = WritersOf(k)
      BY DEF WritersOf, FileName
    <3>. QED
      BY <2>2, <3>1, <3>2 DEF Excused
  <2>3. CASE k = Object /\ InTheWay(Object)
    <3>1. InTheWay(k)'
      BY <1>1, <2>3 DEF InTheWay, Existed, FileName, Parents
    <3>. QED
      BY <3>1 DEF Excused
  <2>. QED
    BY <1>1, <2>1, <2>2, <2>3
<1>. QED
  BY <1>1, <1>2, <1>3 DEF IInv

LEMMA BrokenIsBehind ==
  ASSUME ObjectBroken, UNCHANGED <<bucket, changed, canceled>>
  PROVE  Behind /\ failed' = failed + 1 /\ faults' = [faults EXCEPT !.keys = @ \cup {Object}]
BY DEF ObjectBroken, ObjectFails, Behind

LEMMA BrokenIsFaulty ==
  ASSUME IInv, faults' = [faults EXCEPT !.keys = @ \cup {Object}]
  PROVE  Object \in faults'.keys
BY DEF IInv, TypeInv

LEMMA GetObjectIInv ==
  ASSUME IInv, GetObject
  PROVE  IInv'
<1>1. /\ pc = "list" /\ page # {} /\ bucket' = bucket /\ changed' = changed /\ canceled' = canceled
      /\ UNCHANGED disk /\ dirs' = dirs /\ files' = files
  BY DEF GetObject, disk
<1>2. Steady' = Steady /\ Existed' = Existed
  BY <1>1 DEF Steady, Existed
<1>3. CASE Object \in bucket /\ pc' = "write" /\ UNCHANGED <<loop, faults, result>>
  <2>1. TypeInv'
    BY <1>1, <1>3 DEF IInv, TypeInv, loop, KeysOf
  <2>2. LoopInv'
    <3>1. Object' = Object
      BY <1>3 DEF Object, loop
    <3>. QED
      BY <1>1, <1>2, <1>3, <3>1 DEF IInv, LoopInv, TypeInv, loop, Existed, KeysOf
  <2>. QED
    BY <1>1, <1>2, <1>3, <2>1, <2>2, NothingVisited
<1>4. CASE ObjectBroken
  <2>1. Behind /\ failed' = failed + 1 /\ Object \in faults'.keys
    BY <1>1, <1>4, BrokenIsBehind, BrokenIsFaulty
  <2>2. DiskInv'
    BY <1>1, <1>2 DEF IInv, DiskInv, FileName, Parents
  <2>3. \A k : OnDisk(k)' = OnDisk(k)
    BY <1>1 DEF OnDisk, SameFile, FileName
  <2>. QED
    BY <1>1, <2>1, <2>2, <2>3, ObjectMissing
<1>. QED
  BY <1>3, <1>4 DEF GetObject

(* The object's file is written. *)
LEMMA ObjectWritten ==
  ASSUME IInv, pc = "write", page # {}, Object \in Existed, ~Blocked(FileName(Object, TRUE)),
         Write(FileName(Object, TRUE), Object, TRUE), ObjectDownloaded,
         UNCHANGED <<faults, bucket, changed, canceled>>
  PROVE  IInv'
<1>1. Behind /\ failed' = failed /\ errs' = errs
  BY DEF ObjectDownloaded, Behind
<1>2. /\ TypeInv' /\ CountInv' /\ LoopInv'
      /\ Steady' = Steady /\ Existed' = Existed /\ Steady \subseteq DOMAIN Keys
      /\ faults'.keys = faults.keys /\ faults'.prefixes = faults.prefixes
      /\ \A k \in Steady : Visited(k)' => Visited(k) \/ k = Object
  BY <1>1, ObjectBehind
<1>3. /\ DiskInv'
      /\ \A k : OnDisk(k) \/ k = Object => OnDisk(k)'
      /\ (\A f \in DOMAIN files : files[f].whole) => \A f \in DOMAIN files' : files'[f].whole
  BY FileWritten
<1>4. CleanInv'
  BY <1>1, <1>2, <1>3 DEF IInv, CleanInv
<1>5. LocalInv'
  <2>. SUFFICES ASSUME NEW k \in Steady, Visited(k)' PROVE Excused(k)'
    BY <1>2 DEF LocalInv
  <2>1. CASE Visited(k)
    <3>1. Excused(k)
      BY <2>1 DEF IInv, LocalInv
    <3>. QED
      BY <3>1, <1>2, <1>3, ExcuseKept
  <2>2. CASE k = Object
    BY <2>2, <1>3 DEF Excused
  <2>. QED
    BY <1>2, <2>1, <2>2
<1>. QED
  BY <1>2, <1>3, <1>4, <1>5 DEF IInv

(* The copy fails and leaves the file it began.  The file may be that of   *)
(* another object: this one is among those that may write to it.           *)
LEMMA ObjectTorn ==
  ASSUME IInv, pc = "write", page # {}, Object \in Existed, NEW read \in BOOLEAN,
         ~Blocked(FileName(Object, read)), Write(FileName(Object, read), Object, FALSE),
         ObjectBroken, UNCHANGED <<bucket, changed, canceled>>
  PROVE  IInv'
<1>1. Behind /\ failed' = failed + 1 /\ Object \in faults'.keys
  BY BrokenIsBehind, BrokenIsFaulty
<1>2. /\ DiskInv'
      /\ \A k : OnDisk(k) => OnDisk(k)' \/ FileName(k, TRUE) = FileName(Object, read)
  BY FileWritten
<1>3. Object \in DOMAIN Keys
  BY ObjectOnPage DEF IInv
<1>4. ASSUME NEW k, FileName(k, TRUE) = FileName(Object, read) PROVE Object \in WritersOf(k)
  BY <1>3, <1>4 DEF WritersOf
<1>. QED
  BY <1>1, <1>2, <1>4, ObjectMissing

LEMMA WriteObjectIInv ==
  ASSUME IInv, WriteObject
  PROVE  IInv'
<1>1. /\ pc = "write" /\ page # {} /\ Object \in Existed
      /\ UNCHANGED <<bucket, changed, canceled>>
  BY DEF WriteObject, IInv, LoopInv
<1>2. CASE /\ ~Blocked(FileName(Object, TRUE)) /\ Write(FileName(Object, TRUE), Object, TRUE)
           /\ ObjectDownloaded /\ UNCHANGED faults
  BY <1>1, <1>2, ObjectWritten
<1>3. CASE \E read \in BOOLEAN :
             /\ ~Blocked(FileName(Object, read)) /\ Write(FileName(Object, read), Object, FALSE)
             /\ ObjectBroken
  BY <1>1, <1>3, ObjectTorn
<1>4. CASE UNCHANGED disk /\ (ObjectBroken \/ (Blocked(FileName(Object, TRUE)) /\ ObjectFails
                                                /\ UNCHANGED faults))
  <2>1. dirs' = dirs /\ files' = files
    BY <1>4 DEF disk
  <2>2. DiskInv'
    BY <1>1, <2>1 DEF IInv, DiskInv, FileName, Parents, Existed
  <2>3. \A k : OnDisk(k)' = OnDisk(k)
    BY <2>1 DEF OnDisk, SameFile, FileName
  <2>4. Behind /\ failed' = failed + 1
    BY <1>1, <1>4, BrokenIsBehind DEF Behind, ObjectFails
  <2>5. InTheWay(Object) \/ Object \in faults'.keys
    BY <1>1, <1>4, BrokenIsBehind, BrokenIsFaulty, BlockedIsInTheWay DEF IInv
  <2>. QED
    BY <1>1, <2>2, <2>3, <2>4, <2>5, ObjectMissing
<1>. QED
  BY <1>2, <1>3, <1>4 DEF WriteObject
-----------------------------------------------------------------------------
(* What others do to the bucket only takes objects away from those that    *)
(* must be on the disk.                                                    *)
LEMMA ChangeIInv ==
  ASSUME IInv, Change
  PROVE  IInv'
<1>1. PICK k \in DOMAIN Keys :
        /\ changed' = changed \cup {k}
        /\ bucket' = IF k \in bucket THEN bucket \ {k} ELSE bucket \cup {k}
  BY DEF Change
<1>2. pc # "done" /\ pc' = pc /\ UNCHANGED <<loop, disk, canceled, faults, result>>
  BY DEF Change
<1>3. Steady' \subseteq Steady /\ Existed \subseteq Existed'
  BY <1>1 DEF Steady, Existed
<1>4. TypeInv'
  BY <1>1, <1>2 DEF IInv, TypeInv, loop, KeysOf
<1>5. LoopInv'
  <2>1. Object' = Object /\ KeysOf(prefix)' = KeysOf(prefix)
    BY <1>2 DEF Object, loop, KeysOf
  <2>. QED
    BY <1>2, <1>3, <2>1 DEF IInv, LoopInv, loop
<1>. QED
  BY <1>2, <1>3, <1>4, <1>5, NothingVisited

LEMMA QuietIInv ==
  ASSUME IInv, UNCHANGED <<bucket, changed, pc, loop, disk, faults, result>>,
         canceled' \in BOOLEAN
  PROVE  IInv'
<1>. USE DEF loop, disk
<1>1. TypeInv' /\ CountInv'
  BY DEF IInv, TypeInv, CountInv, KeysOf
<1>2. LoopInv'
  BY DEF IInv, LoopInv, Object, Existed, Steady, KeysOf
<1>3. DiskInv'
  BY DEF IInv, DiskInv, Existed, FileName, Parents
<1>4. \A k : OnDisk(k)' = OnDisk(k) /\ Visited(k)' = Visited(k)
  BY DEF OnDisk, SameFile, FileName, Visited
<1>5. \A k : Excused(k)' = Excused(k)
  BY <1>4 DEF Excused, WritersOf, InTheWay, FileName, Parents
<1>6. CleanInv' /\ LocalInv'
  BY <1>4, <1>5 DEF IInv, CleanInv, LocalInv, Steady
<1>. QED
  BY <1>1, <1>2, <1>3, <1>6 DEF IInv

LEMMA NextIInv ==
  ASSUME IInv, [Next]_vars
  PROVE  IInv'
<1>1. CASE UNCHANGED vars
  BY <1>1, QuietIInv DEF vars, IInv, TypeInv
<1>2. CASE Interrupt
  BY <1>2, QuietIInv DEF Interrupt
<1>3. CASE Change
  BY <1>3, ChangeIInv
<1>4. CASE Download
  BY <1>4, NewObjectStoreIInv, MakeProfileDirIInv, NextPageIInv, EndPrefixIInv, GetObjectIInv,
     WriteObjectIInv DEF Download
<1>. QED
  BY <1>1, <1>2, <1>3, <1>4 DEF Next

(* The loop, the disk and what was downloaded fit together in every state  *)
(* of Gather's goroutine (gather and downloadObjects, pkg/s3/s3.go).       *)
THEOREM S3Consistent == Spec => []IInv
<1>1. IInv /\ [Next]_vars => IInv'
  BY NextIInv
<1>. QED
  BY InitIInv, <1>1, PTL DEF Spec

(* Every variable has its type; an object is counted once per listing, and *)
(* no name is that of a file and of a directory (downloadObjects and       *)
(* downloadObject, pkg/s3/s3.go).                                          *)
THEOREM S3Types == Spec => []TypeOK
<1>1. IInv => TypeOK
  <2>. SUFFICES ASSUME IInv PROVE TypeOK
    OBVIOUS
  <2>1. total + Cardinality(page) <= Cardinality(KeysOf(prefix))
    <3>. DEFINE listed == KeysOf(prefix) \cap 1..last
    <3>1. listed \subseteq KeysOf(prefix) /\ KeysOf(prefix) \subseteq DOMAIN Keys
          /\ page \subseteq DOMAIN Keys
      BY DEF IInv, TypeInv, KeysOf
    <3>2. /\ Cardinality(listed) <= Cardinality(KeysOf(prefix))
          /\ Cardinality(listed) \in Nat /\ Cardinality(KeysOf(prefix)) \in Nat
          /\ Cardinality(page) \in Nat
      BY <3>1, KeysFinite, FS_Subset
    <3>3. total + Cardinality(page) <= Cardinality(listed) /\ total \in Nat
      BY DEF IInv, CountInv, TypeInv
    <3>. HIDE DEF listed
    <3>. QED
      BY <3>2, <3>3
  <2>2. dirs \cap {f.path : f \in {g \in DOMAIN files : ~g.gz}} = {}
    BY DEF IInv, DiskInv
  <2>3. faults.keys \subseteq DOMAIN Keys /\ faults.prefixes \subseteq errs
    BY DEF IInv, TypeInv
  <2>. QED
    BY <2>1, <2>2, <2>3 DEF IInv, TypeInv, TypeOK
<1>. QED
  BY <1>1, S3Consistent, PTL

(* A nil of the download is the truth: no object that was there all the    *)
(* time is missing and no file is torn, although failures are counted in   *)
(* loops that go on (downloadObjects, pkg/s3/s3.go).                       *)
THEOREM NilMissesNothing == Spec => []NilIsComplete
<1>1. IInv => NilIsComplete
  <2>. SUFFICES ASSUME IInv, result = "nil"
                PROVE  (\A k \in Steady : OnDisk(k)) /\ \A f \in DOMAIN files : files[f].whole
    BY DEF NilIsComplete
  <2>1. pc = "done" /\ errs = {} /\ failed = 0
    BY DEF IInv, TypeInv, LoopInv
  <2>. QED
    BY <2>1 DEF IInv, CleanInv, Visited
<1>. QED
  BY <1>1, S3Consistent, PTL

(* When the download ends, an object that was there all the time is on the *)
(* disk, or what failed is its own: its request, the copy of one that      *)
(* writes to its file, its prefix, or a path another object has taken      *)
(* (downloadObjects, pkg/s3/s3.go, goes on behind a failed object).        *)
THEOREM FailuresStayLocal == Spec => []FailuresAreLocal
<1>1. IInv => FailuresAreLocal
  BY DEF FailuresAreLocal, IInv, LocalInv, Visited, Excused
<1>. QED
  BY <1>1, S3Consistent, PTL
=============================================================================
