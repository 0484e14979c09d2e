------------------------------- MODULE Silver -------------------------------
(***************************************************************************)
(* What brain/pipeline/silver.py makes of a batch: records that lack a     *)
(* required field and repeated ones are dropped, and in the text of the    *)
(* others everything that security/pii.py detects is replaced by a token.  *)
(* A text is its length and the matches of the patterns in it, in the      *)
(* order of the patterns; positions count from 0 as in Python.             *)
(***************************************************************************)
EXTENDS Integers, Sequences, SequencesExt

CONSTANTS SampleTexts,    \* texts: [length, matches], a match being [start, end, token]
          SampleIds,      \* task ids, and the times of events and mails
          MaxRecords      \* bound: records in a batch

ASSUME SilverAssumption ==
  /\ \A t \in SampleTexts :
       /\ t.length \in Nat /\ t.matches \in Seq([start : Nat, end : Nat, token : Nat])
       /\ \A i \in DOMAIN t.matches :
            LET m == t.matches[i]
            IN m.start \in 0..t.length - 1 /\ m.end \in m.start + 1..t.length /\ m.token \in Nat \ {0}
  /\ MaxRecords \in Nat

VARIABLES source, batch   \* whose batch it is, and its records

silverVars == <<source, batch>>

SilverInit == source \in {"todoist", "calendar", "gmail"} /\ batch = <<>>

\* complete: it has the fields its source requires.
AddRecord(id, text, complete) ==
  /\ Len(batch) < MaxRecords
  /\ batch' = Append(batch, [id |-> id, text |-> text, complete |-> complete])
  /\ UNCHANGED source

SilverNext == \E id \in SampleIds, text \in SampleTexts, complete \in BOOLEAN : AddRecord(id, text, complete)

SilverSpec == SilverInit /\ [][SilverNext]_silverVars
------------------------------------------------------------------------------
Token == -1

\* A text before masking: its characters are their positions.
RawText(text) == [i \in 1..text.length |-> i - 1]

\* sorted(..., reverse=True): from the last start to the first, those that start
\* together in the order they were found.
LastTurn(matches, s) ==
  CHOOSE i \in s : \A j \in s : \/ matches[j].start > matches[i].start
                                \/ matches[j].start = matches[i].start /\ j <= i

\* result[:start] + placeholder + result[end:].
Replace(result, m) ==
  SubSeq(result, 1, m.start) \o [i \in 1..m.token |-> Token] \o SubSeq(result, m.end + 1, Len(result))

\* mask: the matches are replaced one after the other by the positions they have in
\* the original text.
Mask(text) ==
  MapThenFoldSet(LAMBDA i, result : Replace(result, text.matches[i]), RawText(text),
                 LAMBDA i : i, LAMBDA s : LastTurn(text.matches, s), DOMAIN text.matches)

\* What tells records apart: a task's id, an event's summary and times, a mail's
\* subject, sender and date.
DedupKey(src, r) == IF src = "todoist" THEN <<r.id>> ELSE <<r.text, r.id>>

\* Slip: a record is seen before it is validated.
SeenFirst(src, raws) ==
  LET step(acc, r) ==
        IF DedupKey(src, r) \in acc.seen THEN acc
        ELSE [seen |-> acc.seen \cup {DedupKey(src, r)}, kept |-> IF r.complete THEN Append(acc.kept, r) ELSE acc.kept]
  IN FoldLeft(step, [seen |-> {}, kept |-> <<>>], raws).kept

\* The loop all three sources have.
Valid(src, raws) ==
  LET step(acc, r) ==
        IF ~r.complete \/ DedupKey(src, r) \in acc.seen THEN acc
        ELSE [seen |-> acc.seen \cup {DedupKey(src, r)}, kept |-> Append(acc.kept, r)]
  IN FoldLeft(step, [seen |-> {}, kept |-> <<>>], raws).kept

\* process_todoist, process_calendar, process_gmail: a text without matches stays.
Masked(raws) == [i \in DOMAIN raws |-> [id |-> raws[i].id, text |-> Mask(raws[i].text)]]

ProcessTodoist(raws)  == Masked(Valid("todoist", raws))
ProcessCalendar(raws) == Masked(Valid("calendar", raws))
ProcessGmail(raws)    == Masked(Valid("gmail", raws))

Processed == CASE source = "todoist"  -> ProcessTodoist(batch)
               [] source = "calendar" -> ProcessCalendar(batch)
               [] source = "gmail"    -> ProcessGmail(batch)
------------------------------------------------------------------------------
Inside(m, p) == p >= m.start /\ p < m.end
Matched(text, p) == \E i \in DOMAIN text.matches : Inside(text.matches[i], p)

\* No other match that starts in the i-th has a token longer than itself.
NothingGrowsIn(text, i) ==
  \A j \in DOMAIN text.matches : j # i /\ Inside(text.matches[i], text.matches[j].start) =>
    text.matches[j].token <= text.matches[j].end - text.matches[j].start

Apart(text) ==
  \A i, j \in DOMAIN text.matches : i # j =>
    text.matches[i].end <= text.matches[j].start \/ text.matches[j].end <= text.matches[i].start

\* process_todoist, "drop records missing required fields", "Deduplication", "PII
\* scanning": for each record of the batch that is complete the output has exactly
\* one with its key, whatever incomplete or repeated ones came before; the order is
\* that of the batch; no character of a match is left in which nothing grew, and
\* where no matches overlap what is around them is kept.
SilverIsClean ==
  LET out == Valid(source, batch)
      complete == {DedupKey(source, r) : r \in {x \in ToSet(batch) : x.complete}}
      First(r) == CHOOSE i \in DOMAIN batch : batch[i].complete /\ DedupKey(source, batch[i]) = DedupKey(source, r)
                     /\ \A j \in 1..i - 1 : ~(batch[j].complete /\ DedupKey(source, batch[j]) = DedupKey(source, r))
  IN /\ {DedupKey(source, out[i]) : i \in DOMAIN out} = complete
     /\ \A i, j \in DOMAIN out : i < j => First(out[i]) < First(out[j])
     /\ Len(Processed) = Len(out)
     /\ \A i \in DOMAIN out :
          LET text == out[i].text
              left == ToSet(Processed[i].text)
          IN /\ \A k \in DOMAIN text.matches : NothingGrowsIn(text, k) =>
                  \A p \in left \ {Token} : ~Inside(text.matches[k], p)
             /\ Apart(text) => \A p \in 0..text.length - 1 : Matched(text, p) \/ p \in left

\* mask, "Replace all PII occurrences": nothing of a match is left.
MatchesAreGone ==
  LET out == Valid(source, batch)
  IN \A i \in DOMAIN out : \A p \in ToSet(Processed[i].text) \ {Token} : ~Matched(out[i].text, p)

\* mask, "Process from end to start to preserve positions": what no pattern matched
\* is still there.
TextAroundIsKept ==
  LET out == Valid(source, batch)
  IN \A i \in DOMAIN out : \A p \in 0..out[i].text.length - 1 :
       Matched(out[i].text, p) \/ p \in ToSet(Processed[i].text)
==============================================================================
