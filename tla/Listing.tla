------------------------------- MODULE Listing -------------------------------
(* ListObjects, page by page, while others write and delete keys.

   Three backends answer: the in-memory store, which sorts its keys, collapses
   them at the delimiter and resumes after the previous output; the managed
   authority, which reads one page more than it was asked for in key order and
   knows no delimiter; and an S3 provider, to which the query is forwarded.  A
   page that is not the last carries the position to resume from, in a token
   bound to the query (version 2) or as a plain marker (version 1). *)
EXTENDS Naturals, Sequences, FiniteSets, SequencesExt

CONSTANTS
  ObjectKeys,     \* keys, as sequences of numbers: numbers are characters in byte order
  ListPrefixes,     \* prefixes asked for
  Delimiters,     \* delimiters asked for; the empty one asks for none
  PageSizes,      \* max-keys asked for
  MaxListWrites   \* bound on the writes of others

VARIABLES
  source,     \* the backend that answers
  present,    \* the keys that exist: stored objects, or authority rows without tombstone
  fenced,     \* the namespace is being purged
  lister,     \* the client that lists
  listWrites

listVars == <<source, present, fenced, lister, listWrites>>

Sources == {"memory", "managed", "s3"}
Nowhere == <<>>   \* no position: every key is after it

(* got: the outputs of all pages so far.  steady: the keys that have existed
   since the first page; ever: those that have existed at any time. *)
NoListing ==
  [phase |-> "idle", prefix |-> <<>>, delimiter |-> <<>>, after |-> Nowhere,
   got |-> <<>>, steady |-> {}, ever |-> {}]

ListInit ==
  /\ source \in Sources
  /\ present \in SUBSET ObjectKeys
  /\ fenced = FALSE
  /\ lister = NoListing
  /\ listWrites = 0

-----------------------------------------------------------------------------
(* What a page is *)

Before(a, b) ==
  \/ a # b /\ IsPrefix(a, b)
  \/ \E i \in 1 .. Len(a) :
       /\ i <= Len(b) /\ a[i] < b[i]
       /\ \A j \in 1 .. i - 1 : a[j] = b[j]

InOrder(keys) == SetToSortSeq(keys, Before)

Output(name, common) == [name |-> name, common |-> common]

\* Where the delimiter first occurs behind the prefix: the lengths of what precedes it.
CutsOf(key, prefix, delimiter) ==
  {n \in Len(prefix) .. Len(key) - Len(delimiter) :
     delimiter # <<>> /\ SubSeq(key, n + 1, n + Len(delimiter)) = delimiter}

Smallest(S) == CHOOSE n \in S : \A o \in S : n <= o

\* A key behind the delimiter joins the common prefix, which ends with the first
\* tail characters of the delimiter.
Collapse(prefix, delimiter, tail, outputs, key) ==
  LET cuts == CutsOf(key, prefix, delimiter)
      common == Output(SubSeq(key, 1, Smallest(cuts) + tail), TRUE)
  IN CASE cuts = {} -> Append(outputs, Output(key, FALSE))
       [] cuts # {} /\ outputs # <<>> /\ Last(outputs) = common -> outputs
       [] OTHER -> Append(outputs, common)

Matching(prefix) == {k \in present : IsPrefix(prefix, k)}

\* Mutant: the page starts at the last key of the one before.
ResumedInclusive(outputs, after) ==
  SelectSeq(outputs, LAMBDA o : after = Nowhere \/ ~ Before(o.name, after))

Resumed(outputs, after) ==
  SelectSeq(outputs, LAMBDA o : after = Nowhere \/ Before(after, o.name))

\* The first max-keys outputs, and whether there are more.
Page(outputs, size) ==
  [outputs |-> SubSeq(outputs, 1, IF size < Len(outputs) THEN size ELSE Len(outputs)),
   truncated |-> size > 0 /\ Len(outputs) > size]

CollapsedPage(prefix, delimiter, tail, after, size) ==
  Page(Resumed(FoldLeft(LAMBDA outs, k : Collapse(prefix, delimiter, tail, outs, k),
                        <<>>, InOrder(Matching(prefix))), after), size)

\* The memory store keeps the delimiter's first character only.
MemoryPage(prefix, delimiter, after, size) ==
  CollapsedPage(prefix, delimiter, 1, after, size)

\* starts_with, key > after, ordered, max_keys + 1 rows read.
AuthorityPage(prefix, after, size) ==
  LET rows == InOrder({k \in Matching(prefix) : after = Nowhere \/ Before(after, k)})
      outputs == [i \in 1 .. Len(rows) |-> Output(rows[i], FALSE)]
  IN IF size = 0 THEN [outputs |-> <<>>, truncated |-> FALSE]
     ELSE [outputs |-> SubSeq(outputs, 1, IF size < Len(rows) THEN size ELSE Len(rows)),
           truncated |-> Len(rows) > size]

\* A provider that keeps S3's contract: a common prefix ends with the whole delimiter.
ProviderPage(prefix, delimiter, after, size) ==
  CollapsedPage(prefix, delimiter, Len(delimiter), after, size)

-----------------------------------------------------------------------------
\* max-keys 0 is answered with an empty page that says nothing about the rest.
Took(page, prefix, delimiter, size) ==
  lister' = [lister EXCEPT
    !.phase = IF size = 0 THEN "nothing" ELSE IF page.truncated THEN "more" ELSE "done",
    !.prefix = prefix,
    !.delimiter = delimiter,
    !.after = IF page.truncated THEN Last(page.outputs).name ELSE Nowhere,
    !.got = @ \o page.outputs,
    !.steady = IF lister.phase = "idle" THEN present ELSE @,
    !.ever = @ \cup present]

Refuse == lister' = [lister EXCEPT !.phase = "refused"]

\* list_from_memory
ListFromMemory(prefix, delimiter, size) ==
  /\ source = "memory"
  /\ Took(MemoryPage(prefix, delimiter, lister.after, size), prefix, delimiter, size)

\* list_from_managed: a delimiter is an invalid request, a fenced namespace unavailable.
ListFromManaged(prefix, delimiter, size) ==
  /\ source = "managed"
  /\ IF delimiter # <<>> \/ (fenced /\ size > 0) THEN Refuse
     ELSE Took(AuthorityPage(prefix, lister.after, size), prefix, delimiter, size)

ListFromS3(prefix, delimiter, size) ==
  /\ source = "s3"
  /\ \/ Took(ProviderPage(prefix, delimiter, lister.after, size), prefix, delimiter, size)
     \/ Refuse

ListPage(prefix, delimiter, size) ==
  /\ \/ ListFromMemory(prefix, delimiter, size)
     \/ ListFromManaged(prefix, delimiter, size)
     \/ ListFromS3(prefix, delimiter, size)
  /\ UNCHANGED <<source, present, fenced, listWrites>>

\* The first page.
StartListing ==
  /\ lister.phase = "idle"
  /\ \E prefix \in ListPrefixes, delimiter \in Delimiters, size \in PageSizes :
       ListPage(prefix, delimiter, size)

\* The following ones; the page size may change, the query must not: a token of
\* another query is an invalid request.
ResumeListing ==
  /\ lister.phase = "more"
  /\ \E size \in PageSizes : ListPage(lister.prefix, lister.delimiter, size)

ResumeOther ==
  /\ lister.phase = "more"
  /\ Refuse
  /\ UNCHANGED <<source, present, fenced, listWrites>>

\* Writes of others, and the purge.
OtherWrite ==
  /\ listWrites < MaxListWrites
  /\ listWrites' = listWrites + 1
  /\ \/ \E k \in ObjectKeys : present' = present \cup {k} /\ ~ fenced
     \/ \E k \in present : present' = present \ {k}
  /\ lister' = [lister EXCEPT !.steady = @ \cap present', !.ever = @ \cup present']
  /\ UNCHANGED <<source, fenced>>

FenceNamespace ==
  /\ source = "managed" /\ ~ fenced
  /\ fenced' = TRUE
  /\ UNCHANGED <<source, present, lister, listWrites>>

ListNext == StartListing \/ ResumeListing \/ ResumeOther \/ OtherWrite \/ FenceNamespace

-----------------------------------------------------------------------------
(* A listing read to its end covers every key that existed all the while
   exactly once, as itself or by one common prefix; it repeats nothing, keeps
   the order and invents nothing, whatever is written between its pages and
   whatever page sizes are asked for.  The memory store is held to this for
   delimiters of one character only: of a longer one it keeps the first character,
   and a key can then be covered twice, out of order, or skipped. *)
Covers(o, key) == IF o.common THEN IsPrefix(o.name, key) ELSE o.name = key

Shortened == source = "memory" /\ Len(lister.delimiter) > 1

ListedOnce ==
  LET got == lister.got
  IN ~ Shortened =>
     /\ \A i, j \in 1 .. Len(got) : i < j => Before(got[i].name, got[j].name)
     /\ \A i \in 1 .. Len(got) : \E k \in lister.ever : Covers(got[i], k)
     /\ lister.phase = "done" =>
          \A k \in lister.steady : IsPrefix(lister.prefix, k) =>
            Cardinality({i \in 1 .. Len(got) : Covers(got[i], k)}) = 1
=============================================================================
