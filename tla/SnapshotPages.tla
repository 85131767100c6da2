--------------------------- MODULE SnapshotPages ---------------------------
(***************************************************************************)
(* The snapshot file between the syncs that replace it and the tools that  *)
(* page through it.  A sync takes the roster in one response and the       *)
(* catalogue of characters in numbered pages, while MSF may change it; a   *)
(* reader reopens the file for every page it asks for.                     *)
(*                                                                         *)
(* Syncs run one at a time (operation_lock, HostedStore.player_lock) and   *)
(* replace the file as a whole.  `retrieved_at` is the number of the sync: *)
(* it is a time of microseconds, later for every sync.  The query of a     *)
(* reader stays the same from page to page and only picks rows, and what a *)
(* sync does not parse ends it, so that both are left out.                 *)
(***************************************************************************)
EXTENDS Integers, Sequences, FiniteSets

CONSTANTS
  Character,   \* numbered in the order of MSF's catalogue
  Rosters,     \* the rosters MSF answers with: the power of each owned character
  PerPage,     \* per_page of iter_game_characters
  PageLimit,   \* limits a reader asks with
  MaxChanges,  \* bound: the changes MSF makes to the catalogue
  MaxSyncs,    \* bound: the files that are written
  Idle

VARIABLES
  upstream,  \* the characters MSF has
  changes,
  sync,      \* what fetch_snapshot holds
  written,   \* every file that was written; the last one is there
  reader     \* what a reader got so far

pages == <<upstream, changes, sync, written, reader>>

ASSUME PageAssumption ==
  PerPage \in Nat \ {0} /\ PageLimit \subseteq 1..100 /\ MaxChanges \in Nat
ASSUME CharacterAssumption == Character \subseteq Nat /\ IsFiniteSet(Character)
ASSUME RosterAssumption == \A roster \in Rosters :
  DOMAIN roster \subseteq Character /\ \A c \in DOMAIN roster : roster[c] \in Int

\* The members of S in the order `before`: the n-th is the one that n - 1 are before.
Listed(S, before) ==
  [n \in 1..Cardinality(S) |->
    CHOOSE c \in S : Cardinality({d \in S : <<d, c>> \in before}) = n - 1]

\* The order of the catalogue
Sorted(S) == Listed(S, {pair \in S \X S : pair[1] < pair[2]})

\* rows[from:to]
Slice(rows, from, to) == SubSeq(rows, from + 1, IF to < Len(rows) THEN to ELSE Len(rows))

InitPages ==
  /\ upstream \in SUBSET Character
  /\ changes = 0
  /\ sync = Idle
  /\ written = <<>>
  /\ reader = Idle

-----------------------------------------------------------------------------
(* fetch_snapshot                                                          *)

Change(c) ==
  /\ changes < MaxChanges
  /\ upstream' = (upstream \ {c}) \cup ({c} \ upstream)
  /\ changes' = changes + 1
  /\ UNCHANGED <<sync, written, reader>>

\* Profile, roster and inventory; `characters` asks for the catalogue too.
StartSync(roster, characters) ==
  /\ sync = Idle /\ Len(written) < MaxSyncs
  /\ sync' = [roster |-> roster, at |-> IF characters THEN "pages" ELSE "write",
              page |-> 1, records |-> <<>>, first |-> upstream, change |-> changes]
  /\ UNCHANGED <<upstream, changes, written, reader>>

\* MSF's page of the catalogue
Page(n) == Slice(Sorted(upstream), (n - 1) * PerPage, n * PerPage)

\* Mutant: a full page may be the last one.
LastWhenFull(records) == Len(records) <= PerPage

\* len(records) < per_page
LastPage(records) == Len(records) < PerPage

FetchPage ==
  /\ sync # Idle /\ sync.at = "pages"
  /\ LET records == Page(sync.page) IN
     sync' = [sync EXCEPT
       !.records = @ \o records,
       !.page = IF LastPage(records) THEN sync.page ELSE sync.page + 1,
       !.at = IF LastPage(records) THEN "fetched" ELSE "pages"]
  /\ UNCHANGED <<upstream, changes, written, reader>>

\* An error of MSF or of the connection, too many bytes, a row that is none
FetchFails ==
  /\ sync # Idle
  /\ sync' = Idle
  /\ UNCHANGED <<upstream, changes, written, reader>>

File == written[Len(written)]

\* Mutant: the date of the catalogue is kept, and the catalogue is not.
KeptDate == [rows |-> <<>>, stamp |-> IF written = <<>> THEN 0 ELSE File.catalogue.stamp]

\* The catalogue that a sync of personal data keeps, with its own date
Kept == IF written = <<>> THEN [rows |-> Idle, stamp |-> 0] ELSE File.catalogue

Write ==
  /\ sync # Idle /\ sync.at \in {"fetched", "write"}
  /\ written' = Append(written,
       [roster |-> sync.roster,
        catalogue |-> IF sync.at = "write" THEN Kept
                      ELSE [rows |-> sync.records, stamp |-> Len(written) + 1],
        \* history: what the catalogue was, if it did not change since
        whole |-> sync.change = changes, first |-> sync.first])
  /\ sync' = Idle
  /\ UNCHANGED <<upstream, changes, reader>>

-----------------------------------------------------------------------------
(* SnapshotReader                                                          *)

\* Strongest first, then by id
Ranked(roster) ==
  LET characters == DOMAIN roster IN
  Listed(characters, {pair \in characters \X characters :
    \/ roster[pair[1]] > roster[pair[2]]
    \/ roster[pair[1]] = roster[pair[2]] /\ pair[1] < pair[2]})

\* What a page is cut from, and its retrieved_at.  roster and inventory have those of the
\* snapshot, characters those of the catalogue.
Rows(list) ==
  IF list = "roster" THEN Ranked(File.roster) ELSE File.catalogue.rows

Stamp(list) == IF list = "roster" THEN Len(written) ELSE File.catalogue.stamp

\* Mutant: the row after the page is not looked for.
OneShort(offset, limit, total) == IF offset + limit + 1 < total THEN offset + limit ELSE -1

\* Mutant: a page after the last one is announced, for ever.
NeverNone(offset, limit, total) == IF offset + limit < total THEN offset + limit ELSE total

\* next_offset; -1 is None
NextOffset(offset, limit, total) == IF offset + limit < total THEN offset + limit ELSE -1

Available(list) ==
  /\ written # <<>>
  /\ list = "characters" => File.catalogue.stamp # 0

\* _page; the reader appends it and goes on at next_offset.
Reads(list, offset, limit, got, stamps) ==
  LET rows == Rows(list) IN
  reader' = [list |-> list, limit |-> limit,
             offset |-> NextOffset(offset, limit, Len(rows)),
             got |-> got \o Slice(rows, offset, offset + limit),
             stamps |-> stamps \cup {Stamp(list)}]

FirstRead(list, limit) ==
  /\ reader = Idle
  /\ Available(list)
  /\ Reads(list, 0, limit, <<>>, {})
  /\ UNCHANGED <<upstream, changes, sync, written>>

NextRead ==
  /\ reader # Idle /\ reader.offset # -1
  /\ Available(reader.list)
  /\ Reads(reader.list, reader.offset, reader.limit, reader.got, reader.stamps)
  /\ UNCHANGED <<upstream, changes, sync, written>>

\* The assistant has what it wanted.
Leave ==
  /\ reader # Idle
  /\ reader' = Idle
  /\ UNCHANGED <<upstream, changes, sync, written>>

-----------------------------------------------------------------------------
NextPages ==
  \/ \E c \in Character : Change(c)
  \/ \E roster \in Rosters, characters \in BOOLEAN : StartSync(roster, characters)
  \/ FetchPage \/ FetchFails \/ Write
  \/ \E list \in {"roster", "characters"}, limit \in PageLimit : FirstRead(list, limit)
  \/ NextRead \/ Leave

Paging == InitPages /\ [][NextPages]_pages

\* An assistant that pages through a list goes on until it is through or gives up.
FairPaging == Paging /\ WF_pages(NextRead)

-----------------------------------------------------------------------------
(* Properties                                                              *)

Done == reader # Idle /\ reader.offset = -1

\* Every variable has its type; a catalogue has the date of the sync that fetched it.
PagesTyped ==
  /\ upstream \subseteq Character
  /\ changes \in 0..MaxChanges
  /\ sync # Idle =>
       /\ sync.at \in {"pages", "fetched", "write"}
       /\ sync.page \in Nat \ {0}
       /\ sync.records \in Seq(Character)
       /\ sync.at = "write" => sync.records = <<>>
  /\ \A n \in DOMAIN written :
       /\ written[n].roster \in Rosters
       /\ written[n].catalogue.stamp \in 0..n
       /\ written[n].catalogue.stamp # 0 =>
            written[n].catalogue = written[written[n].catalogue.stamp].catalogue
  /\ reader # Idle =>
       /\ reader.offset \in Nat \cup {-1}
       /\ reader.stamps \subseteq 0..Len(written)

\* A reader that followed next_offset to its end and saw one retrieved_at has exactly the
\* rows of that snapshot, each once and in their order, though syncs replaced the file
\* between its pages: a mixture always shows in retrieved_at.  (SnapshotReader._page,
\* snapshot.py:273-283)
PagesWhole ==
  Done => \A stamp \in reader.stamps : reader.stamps = {stamp} =>
    reader.got = IF reader.list = "roster" THEN Ranked(written[stamp].roster)
                 ELSE written[stamp].catalogue.rows

\* A catalogue that MSF did not change while its pages were fetched is saved whole,
\* whatever its length is to the size of a page.  (iter_game_characters,
\* client.py:109-130)
CatalogueWhole ==
  \A n \in DOMAIN written :
    written[n].whole /\ written[n].catalogue.stamp = n =>
      written[n].catalogue.rows = Sorted(written[n].first)

\* A reader reaches the end of its list, though every page may come from another file.
ReaderEnds == reader # Idle ~> (reader = Idle \/ Done)
=============================================================================
