----------------------------- MODULE ActionLedger -----------------------------
(***************************************************************************)
(* brain/security/action_ledger.py: a file for each day to which the       *)
(* threads of a process append entries, each with the hash of the one      *)
(* before.  The head of the chain and the count are in memory; another     *)
(* process appends to the same files with a head of its own.               *)
(***************************************************************************)
EXTENDS Integers, Sequences

CONSTANTS Loggers,       \* the threads that log
          ProcessOf,     \* the process each belongs to
          SegmentSize,   \* max_entries_per_file
          LastDay,       \* bound: days 1..LastDay
          MaxEntries     \* bound: entries logged in all

Processes == {ProcessOf[g] : g \in Loggers}
LogDays == 1..LastDay

ASSUME LedgerAssumption ==
  /\ SegmentSize \in Nat \ {0} /\ LastDay \in Nat \ {0} /\ MaxEntries \in Nat

VARIABLES logFile,     \* actions-{day}.jsonl: its entries
          logDay,
          head,        \* _last_hash of each process, 0 for ""
          entryCount,  \* _entry_count of each process
          entry,       \* what each thread has prepared outside the lock
          logged,      \* history: entries hashed so far; an entry's number is its hash
          chain        \* history: the entries of each process since it started, and their fate

ledgerVars == <<logFile, logDay, head, entryCount, entry, logged, chain>>

NoEntry == [ready |-> FALSE, prev |-> 0]

LedgerInit ==
  /\ logFile = [d \in LogDays |-> <<>>]
  /\ logDay = 1
  /\ head = [p \in Processes |-> 0]
  /\ entryCount = [p \in Processes |-> 0]
  /\ entry = [g \in Loggers |-> NoEntry]
  /\ logged = 0
  /\ chain = [p \in Processes |-> <<>>]

\* log: time stamp and redaction, before the lock.
Prepare(g) ==
  /\ ~entry[g].ready
  /\ logged < MaxEntries
  /\ entry' = [entry EXCEPT ![g] = [ready |-> TRUE, prev |-> head[ProcessOf[g]]]]
  /\ UNCHANGED <<logFile, logDay, head, entryCount, logged, chain>>

\* Under the lock: hash, head, count, then the file of the day; when the count
\* reaches a multiple of the segment size the head is cleared before the entry
\* is written.  An OSError loses the entry and nothing else.
AppendAfter(g, prev) ==
  LET p == ProcessOf[g]
      line == [hash |-> logged + 1, prev |-> prev]
      turn == (entryCount[p] + 1) % SegmentSize = 0
  IN /\ entry[g].ready
     /\ logged' = logged + 1
     /\ entryCount' = [entryCount EXCEPT ![p] = @ + 1]
     /\ head' = [head EXCEPT ![p] = IF turn THEN 0 ELSE line.hash]
     /\ \E written \in BOOLEAN :
          /\ logFile' = IF written THEN [logFile EXCEPT ![logDay] = Append(@, line)] ELSE logFile
          /\ chain' = [chain EXCEPT ![p] = Append(@, [line |-> line, written |-> written, turn |-> turn])]
     /\ entry' = [entry EXCEPT ![g] = NoEntry]
     /\ UNCHANGED logDay

\* Slip: the head is read with the time stamp, before the lock.
AppendStale(g) == AppendAfter(g, entry[g].prev)

AppendEntry(g) == AppendAfter(g, head[ProcessOf[g]])

\* verify_chain: each line names the hash of the line before.
VerifyChain(file) ==
  \A n \in DOMAIN file : file[n].prev = IF n = 1 THEN 0 ELSE file[n - 1].hash

\* The day turns; the running processes keep their heads.
NewLogDay ==
  /\ logDay < LastDay
  /\ logDay' = logDay + 1
  /\ UNCHANGED <<logFile, head, entryCount, entry, logged, chain>>

\* A process starts again, with an empty head.
RestartProcess(p) ==
  /\ head' = [head EXCEPT ![p] = 0]
  /\ entryCount' = [entryCount EXCEPT ![p] = 0]
  /\ entry' = [g \in Loggers |-> IF ProcessOf[g] = p THEN NoEntry ELSE entry[g]]
  /\ chain' = [chain EXCEPT ![p] = <<>>]
  /\ UNCHANGED <<logFile, logDay, logged>>

LedgerNext ==
  \/ \E g \in Loggers : Prepare(g) \/ AppendEntry(g)
  \/ \E p \in Processes : RestartProcess(p)
  \/ NewLogDay

LedgerSpec == LedgerInit /\ [][LedgerNext]_ledgerVars
------------------------------------------------------------------------------
LedgerTypeOK ==
  /\ \A d \in LogDays : \A n \in DOMAIN logFile[d] : logFile[d][n].hash \in 1..logged
  /\ head \in [Processes -> 0..logged]
  /\ entryCount \in [Processes -> 0..logged]

\* log: whatever the threads of a process and other processes append in
\* between, the entries of a process form one chain, in the order of its lines
\* in the files, cut only where a segment ends; an entry that was not written
\* leaves its hash as the trace.
OneChainEach ==
  \A p \in Processes :
    /\ \A n \in DOMAIN chain[p] : chain[p][n].line.prev =
         IF n = 1 \/ chain[p][n - 1].turn THEN 0 ELSE chain[p][n - 1].line.hash
    /\ \A n \in 2..Len(chain[p]) : \A d, e \in LogDays : \A i \in DOMAIN logFile[d], j \in DOMAIN logFile[e] :
         logFile[d][i] = chain[p][n - 1].line /\ logFile[e][j] = chain[p][n].line
           => d < e \/ (d = e /\ i < j)

\* verify_chain: "True if the chain is intact (no tampering detected)".
UntamperedVerifies == \A d \in LogDays : VerifyChain(logFile[d])
==============================================================================
