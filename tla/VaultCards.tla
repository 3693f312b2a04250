----------------------------- MODULE VaultCards -----------------------------
(***************************************************************************)
(* The notes of the knowledge vault, as the writer merges into them and    *)
(* the compaction cuts them.  Both read a note, work on what they read and *)
(* write it back; the vault's lock is held for the write only, and in one  *)
(* process, so two of them interleave: the extraction after a reply and    *)
(* the sweep (which compacts when its windows are done), or the sweeps of  *)
(* the agent and the worker.  The archive, too, is read and written back.  *)
(*                                                                         *)
(* A line is what it says and, in the section of dated facts, its day.     *)
(* Blank lines and layout are left out.  Aliases are frontmatter; they are *)
(* kept as one more section, for they are merged by the same steps.        *)
(*                                                                         *)
(* told and lost are history: the lines written, in order, and those of a  *)
(* file that were overwritten with what was read of it before they came.   *)
(***************************************************************************)
EXTENDS Naturals, Sequences, FiniteSets, FiniteSetsExt, SequencesExt, Ordering

CONSTANTS Updates,           \* what a plan may say: [file, to, text, alias]
          Writers,           \* the processes that apply plans
          Compactors,        \* those that sweep, too
          Undated,           \* the day of a line without a date
          BucketAges,        \* max_age_days of the bounded BUCKETS, ascending
          Limit, QuoteLimit, \* LIMIT, QUOTE_LIMIT
          MaxDay, MaxTold    \* bounds: the calendar, the lines written

Files == {"card", "lore"}
Sections == {"aliases", "context", "quotes", "body"}
Texts == {u.text : u \in Updates} \cup {u.alias : u \in Updates}
NoteLines == [day : 0..MaxDay \cup {Undated}, text : Texts]
Notes == [Sections -> Seq(NoteLines)]

ASSUME CardsAssumption ==
    /\ Compactors \subseteq Writers
    /\ Updates \subseteq [file : Files, to : Sections \ {"aliases"}, text : Texts, alias : Texts]
    /\ Undated \notin Nat
    /\ BucketAges \in Seq(Nat)
    /\ {Limit, QuoteLimit} \subseteq Nat \ {0} /\ {MaxDay, MaxTold} \subseteq Nat

VARIABLES today, notes, archive, work, told, lost
cardVars == <<today, notes, archive, work, told, lost>>

EmptyNote == [s \in Sections |-> <<>>]
LinesOf(note) == UNION {ToSet(note[s]) : s \in Sections}

Idle == [at |-> "idle"]
Holding(u, note) == [at |-> "holding", update |-> u, note |-> note]
Cutting(note, kept, due) == [at |-> "cutting", note |-> note, kept |-> kept, due |-> due]
Archiving(e, past) ==
    [at |-> "archiving", note |-> e.note, kept |-> e.kept, due |-> e.due, past |-> past]
Dues == {<<"context", "quotes">>, <<"quotes">>, <<>>}

Efforts ==
    {Idle} \cup [at : {"holding"}, update : Updates, note : Notes]
           \cup [at : {"cutting"}, note : Notes, kept : Notes, due : Dues]
           \cup [at : {"archiving"}, note : Notes, kept : Notes, due : Dues \ {<<>>}, past : Notes]

CardTypeOK ==
    /\ today \in 0..MaxDay
    /\ notes \in [Files -> Notes] /\ archive \in Notes
    /\ work \in [Writers -> Efforts]
    /\ told \in Seq([file : Files, line : NoteLines])
    /\ lost \subseteq (Files \cup {"archive"}) \X NoteLines

CardInit ==
    /\ today = 0
    /\ notes = [f \in Files |-> EmptyNote]
    /\ archive = EmptyNote
    /\ work = [w \in Writers |-> Idle]
    /\ told = <<>>
    /\ lost = {}
-----------------------------------------------------------------------------
(* append_to_section: a line that is anywhere in the body is skipped, a    *)
(* new one is put right under the heading, above the older lines.          *)
Insert(note, s, line) ==
    IF line \in UNION {ToSet(note[t]) : t \in Sections \ {"aliases"}} THEN note
    ELSE [note EXCEPT ![s] = <<line>> \o @]

(* merge_meta: aliases accumulate, in order.                               *)
MergeAlias(note, alias) ==
    IF alias \in ToSet(note["aliases"]) THEN note
    ELSE [note EXCEPT !["aliases"] = Append(@, alias)]

AliasLine(u) == [day |-> Undated, text |-> u.alias]

(* A fact is stamped with its day, a quote, a term and an event are not.   *)
LineOf(u) == [day |-> IF u.to = "context" THEN today ELSE Undated, text |-> u.text]

Merge(note, u) == MergeAlias(Insert(note, u.to, LineOf(u)), AliasLine(u))
-----------------------------------------------------------------------------
(* Some of the lines of a section, by their places.                        *)
Taken(lines, places) == [k \in DOMAIN places |-> lines[places[k]]]
Only(lines, places) == Taken(lines, Ascending(places))

(* Age buckets: number 1 is today, the last one has no bound.              *)
Age(line) == IF line.day > today THEN 0 ELSE today - line.day
BucketOf(line) ==
    Cardinality({i \in DOMAIN BucketAges : BucketAges[i] < Age(line)}) + 1

Dated(lines) == {i \in DOMAIN lines : lines[i].day # Undated}

\* Mutant of Older: the lines are taken as they stand in the note.
OlderAsTheyStand(lines) == {p \in Dated(lines) \X Dated(lines) : p[1] < p[2]}

(* Sorted by day; lines of one day keep their order.                       *)
Older(lines) ==
    {p \in Dated(lines) \X Dated(lines) :
        \/ lines[p[1]].day < lines[p[2]].day
        \/ lines[p[1]].day = lines[p[2]].day /\ p[1] < p[2]}

(* Each bucket keeps its last lines.                                       *)
NewerInBucket(lines, i) ==
    {j \in Dated(lines) : <<i, j>> \in Older(lines) /\ BucketOf(lines[j]) = BucketOf(lines[i])}
Newest(lines) == {i \in Dated(lines) : Cardinality(NewerInBucket(lines, i)) < Limit}

InDays(lines, places) == Taken(lines, InOrder(places, Older(lines)))

(* compact_section: [kept, over].                                          *)
CompactContext(lines) ==
    [kept |-> Only(lines, DOMAIN lines \ Dated(lines)) \o InDays(lines, Newest(lines)),
     over |-> InDays(lines, Dated(lines) \ Newest(lines))]

Unique(lines) == Only(lines, {i \in DOMAIN lines : \A j \in 1..i-1 : lines[j] # lines[i]})

LastOf(s, n) == SubSeq(s, Len(s) - n + 1, Len(s))
ButLast(s, n) == SubSeq(s, 1, Len(s) - n)

(* compact_quotes: the last ones are kept.                                 *)
CompactQuotes(lines) ==
    LET quotes == Unique(lines)
    IN  IF Len(quotes) <= QuoteLimit THEN [kept |-> lines, over |-> <<>>]
        ELSE [kept |-> LastOf(quotes, QuoteLimit), over |-> ButLast(quotes, QuoteLimit)]

(* compact_heading_lines: the other sections are left alone.               *)
Compacted(note, s) ==
    CASE s = "quotes" -> CompactQuotes(note[s])
      [] s = "context" -> CompactContext(note[s])
      [] OTHER -> [kept |-> note[s], over |-> <<>>]

(* append_archive: lines that the archive has are skipped.                 *)
FreshLines(past, over) == Only(over, {i \in DOMAIN over : over[i] \notin LinesOf(past)})
Archived(past, s, over) == [past EXCEPT ![s] = @ \o FreshLines(past, over)]
-----------------------------------------------------------------------------
(* write_note: what came to the note since it was read is overwritten.     *)
WriteBack(file, read, body) ==
    /\ notes' = [notes EXCEPT ![file] = body]
    /\ lost' = lost \cup ({file} \X (LinesOf(notes[file]) \ LinesOf(read)))

(* A writer reads the note that an update is about.                        *)
ReadNote(w, u) ==
    /\ work[w] = Idle /\ Len(told) < MaxTold
    /\ work' = [work EXCEPT ![w] = Holding(u, notes[u.file])]
    /\ UNCHANGED <<today, notes, archive, told, lost>>

WriteNote(w) ==
    /\ work[w].at = "holding" /\ Len(told) + 1 < MaxTold
    /\ LET u == work[w].update
       IN  /\ WriteBack(u.file, work[w].note, Merge(work[w].note, u))
           /\ told' = told \o <<[file |-> u.file, line |-> LineOf(u)],
                                [file |-> u.file, line |-> AliasLine(u)]>>
    /\ work' = [work EXCEPT ![w] = Idle]
    /\ UNCHANGED <<today, archive>>

\* Mutant of ReadCard: quotes are cut, and only dated facts are archived.
ReadCardOfFacts(c) ==
    LET note == notes["card"]
        kept == [s \in Sections |-> Compacted(note, s).kept]
    IN  /\ c \in Compactors /\ work[c] = Idle /\ kept # note
        /\ work' = [work EXCEPT ![c] = Cutting(note, kept, <<"context">>)]
        /\ UNCHANGED <<today, notes, archive, told, lost>>

(* compact_person_card reads the card, too, and settles what it will keep. *)
ReadCard(c) ==
    LET note == notes["card"]
        kept == [s \in Sections |-> Compacted(note, s).kept]
    IN  /\ c \in Compactors /\ work[c] = Idle /\ kept # note
        /\ work' = [work EXCEPT ![c] = Cutting(note, kept, <<"context", "quotes">>)]
        /\ UNCHANGED <<today, notes, archive, told, lost>>

(* Section by section, the overflow goes to the archive first: it is read, *)
(* unless there is none, and written back with the lines it has not.       *)
Overflow(e) == Compacted(e.note, Head(e.due)).over

ReadArchive(c) ==
    LET e == work[c]
    IN  /\ e.at = "cutting" /\ e.due # <<>>
        /\ work' = [work EXCEPT ![c] =
               IF Overflow(e) = <<>> THEN Cutting(e.note, e.kept, Tail(e.due))
               ELSE Archiving(e, archive)]
        /\ UNCHANGED <<today, notes, archive, told, lost>>

WriteArchive(c) ==
    LET e == work[c]
    IN  /\ e.at = "archiving"
        /\ IF FreshLines(e.past, Overflow(e)) = <<>> THEN UNCHANGED <<archive, lost>>
           ELSE /\ archive' = Archived(e.past, Head(e.due), Overflow(e))
                /\ lost' = lost \cup ({"archive"} \X (LinesOf(archive) \ LinesOf(e.past)))
        /\ work' = [work EXCEPT ![c] = Cutting(e.note, e.kept, Tail(e.due))]
        /\ UNCHANGED <<today, notes, told>>

(* Then the card is written without it.                                    *)
CutCard(c) ==
    /\ work[c].at = "cutting" /\ work[c].due = <<>>
    /\ WriteBack("card", work[c].note, work[c].kept)
    /\ work' = [work EXCEPT ![c] = Idle]
    /\ UNCHANGED <<today, archive, told>>

(* The process dies, or a file call raises, between two steps.             *)
GiveUp(w) ==
    /\ work[w] # Idle
    /\ work' = [work EXCEPT ![w] = Idle]
    /\ UNCHANGED <<today, notes, archive, told, lost>>

Midnight ==
    /\ today < MaxDay
    /\ \A w \in Writers : work[w] = Idle
    /\ today' = today + 1
    /\ UNCHANGED <<notes, archive, work, told, lost>>

CardNext ==
    \/ Midnight
    \/ \E w \in Writers, u \in Updates : ReadNote(w, u)
    \/ \E w \in Writers :
          \/ WriteNote(w) \/ GiveUp(w)
          \/ ReadCard(w) \/ ReadArchive(w) \/ WriteArchive(w) \/ CutCard(w)

CardSpec == CardInit /\ [][CardNext]_cardVars
-----------------------------------------------------------------------------
(* What was written of somebody is in the card or in the archive, unless   *)
(* it was overwritten in one of them with an older reading: the compaction *)
(* drops nothing, wherever it is interrupted.  (compaction_apply.py)       *)
LinesAreKept ==
    \A i \in DOMAIN told :
        \/ told[i].line \in LinesOf(notes[told[i].file]) \cup LinesOf(archive)
        \/ \E f \in {told[i].file, "archive"} : <<f, told[i].line>> \in lost

(* Merges are idempotent: no section has a line twice, however the writers *)
(* and the compaction interleave.  (writer.py)                             *)
LinesAreUnique ==
    /\ \A f \in Files, s \in Sections : IsInjective(notes[f][s])
    /\ \A s \in Sections : IsInjective(archive[s])

(* A dated fact leaves the card only when its bucket holds Limit facts     *)
(* that are not older, and then every bucket holds at most Limit.          *)
(* (compaction_body.py, compact_section)                                   *)
SameBucket(lines, l) ==
    {i \in DOMAIN lines : lines[i].day # Undated /\ BucketOf(lines[i]) = BucketOf(l)}

OnlyOldGo(before, after) ==
    /\ \A l \in ToSet(before) \ ToSet(after) :
           Cardinality({i \in SameBucket(after, l) : after[i].day >= l.day}) = Limit
    /\ \A l \in ToSet(after) : l.day # Undated => Cardinality(SameBucket(after, l)) <= Limit

CutsAreOld ==
    [][\A c \in Compactors :
          CutCard(c) => OnlyOldGo(work[c].note["context"], notes'["card"]["context"])]_cardVars

Rank(line) == Min({i \in DOMAIN told : told[i].line = line})

(* The newest QUOTE_LIMIT quotes stay: a quote that was cut is older than  *)
(* those that were kept.  (compaction.py, compact_quotes)                  *)
NewestQuotesStay ==
    \A q \in ToSet(archive["quotes"]) \ ToSet(notes["card"]["quotes"]) :
        \A k \in ToSet(notes["card"]["quotes"]) : Rank(q) < Rank(k)

(* Concurrent writers never interleave (vault.py): nothing is overwritten. *)
WritersNeverInterleave == lost = {}

(* The post-reply stage and the sweep never duplicate content (writer.py): *)
(* one fact has one line.                                                  *)
ContentIsNotDuplicated ==
    \A i, j \in DOMAIN notes["card"]["context"] :
        notes["card"]["context"][i].text = notes["card"]["context"][j].text => i = j

(* A card loses no line and gets none twice but by another writer.         *)
CardsKeepLines == LinesAreKept /\ LinesAreUnique
=============================================================================
