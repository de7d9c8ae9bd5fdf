------------------------- MODULE ToolResultArchive -------------------------
(***************************************************************************)
(* The archive of tool results of one run (bench/tool_result_archive.py):  *)
(* capture writes the result to a payload file of its own and then appends *)
(* a line to the journal index.jsonl; a trusted host may reopen the same   *)
(* directory after the process died.  Nothing is synced: what is written   *)
(* survives the process, not the machine.  A result is known by its place  *)
(* in the order of captures; the check of its SHA-256 compares that.       *)
(***************************************************************************)
EXTENDS Naturals, Sequences

CONSTANTS
  MAX_BYTES, MAX_ENTRIES, MAX_INDEX_BYTES,
  Reserve,      \* the 1024 bytes of the journal that must be free beforehand
  Sizes,        \* sizes of captured results
  LineSizes,    \* sizes of journal lines, also one above Reserve
  MaxCaptures   \* bound on the captures that get past the quotas

ASSUME QuotaAssumption ==
  /\ MAX_BYTES \in Nat /\ MAX_ENTRIES \in Nat /\ MAX_INDEX_BYTES \in Nat
  /\ Reserve \in Nat /\ MaxCaptures \in Nat
  /\ Sizes \subseteq Nat /\ LineSizes \subseteq Nat

VARIABLES
  available, entries, bytes_used, index_bytes,  \* the object in memory
  payloads,     \* the payload files: 0 is one that was cut off
  journal,      \* the whole lines of index.jsonl
  journal_end,  \* none (no file), whole, bare (last newline missing) or torn
  capture,      \* the capture under way
  captures,     \* history: number of captures that got past the quotas
  returned      \* history: the refs that were handed out, and what they name

archiveVars == <<available, entries, bytes_used, index_bytes, payloads, journal,
                 journal_end, capture, captures, returned>>

Idle == [step |-> "none"]
Number == Len(entries) + 1

\* A line of the journal and of the index; what is 0 without a payload.
Entry(ref, what, size, status, line) ==
  [ref |-> ref, what |-> what, size |-> size, status |-> status, line |-> line]
Unavailable == Entry(FALSE, 0, 0, "unknown", 0)

\* __init__ with a fresh scope, or without a usable root.
NewScope(usable) ==
  /\ available = usable
  /\ entries = <<>> /\ bytes_used = 0 /\ index_bytes = 0
  /\ payloads = [n \in {} |-> 0] /\ journal = <<>> /\ journal_end = "none"
  /\ capture = Idle /\ captures = 0 /\ returned = {}

HasQuota ==
  /\ available
  /\ Len(entries) < MAX_ENTRIES
  /\ index_bytes + Reserve <= MAX_INDEX_BYTES

\* Mutant: the bytes are counted but not limited.
CaptureStartUnlimited(size, sensitive, status) ==
  /\ capture = Idle
  /\ IF ~ HasQuota THEN UNCHANGED <<capture, captures>>
     ELSE /\ captures < MaxCaptures
          /\ captures' = captures + 1
          /\ capture' = [step |-> IF sensitive THEN "mention" ELSE "payload",
                         what |-> captures + 1, size |-> size, status |-> status]
  /\ UNCHANGED <<available, entries, bytes_used, index_bytes, payloads, journal,
                 journal_end, returned>>

\* capture, up to its first write: without quota it returns with an unknown
\* status; a sensitive result, or one too large, is only mentioned in the
\* journal.
CaptureStart(size, sensitive, status) ==
  /\ capture = Idle
  /\ IF ~ HasQuota THEN UNCHANGED <<capture, captures>>
     ELSE /\ captures < MaxCaptures
          /\ captures' = captures + 1
          /\ capture' = [step |-> IF sensitive \/ bytes_used + size > MAX_BYTES
                                  THEN "mention" ELSE "payload",
                         what |-> captures + 1, size |-> size, status |-> status]
  /\ UNCHANGED <<available, entries, bytes_used, index_bytes, payloads, journal,
                 journal_end, returned>>

\* The exclusive creation of the payload file, and its write.
WritePayload ==
  /\ capture.step = "payload" /\ Number \notin DOMAIN payloads
  /\ payloads' = [n \in DOMAIN payloads \cup {Number} |->
                    IF n = Number THEN capture.what ELSE payloads[n]]
  /\ bytes_used' = bytes_used + capture.size
  /\ capture' = [capture EXCEPT !.step = "journal"]
  /\ UNCHANGED <<available, entries, index_bytes, journal, journal_end,
                 captures, returned>>

\* The entry of the capture under way.
Captured(line) ==
  IF capture.step = "mention" THEN Entry(FALSE, 0, 0, "unknown", line)
  ELSE Entry(TRUE, capture.what, capture.size, capture.status, line)

\* A line behind one that lost its newline makes both unreadable, for good.
JournalGrows(entry) ==
  IF journal_end \in {"bare", "torn"}
  THEN journal_end' = "torn" /\ UNCHANGED journal
  ELSE journal_end' = "whole" /\ journal' = Append(journal, entry)

\* The line is appended and capture returns; the answer names a ref or none.
AppendJournal ==
  /\ capture.step \in {"mention", "journal"}
  /\ \E line \in LineSizes : LET entry == Captured(line) IN
       /\ index_bytes + line <= MAX_INDEX_BYTES
       /\ JournalGrows(entry)
       /\ index_bytes' = index_bytes + line
       /\ entries' = Append(entries, entry)
       /\ returned' = IF entry.ref THEN returned \cup {[n |-> Number, entry |-> entry]}
                      ELSE returned
  /\ capture' = Idle
  /\ UNCHANGED <<available, bytes_used, payloads, captures>>

\* The line turns out too long for the journal: capture returns although the
\* payload was written, and the number is used again.
JournalFull ==
  /\ capture.step \in {"mention", "journal"}
  /\ \E line \in LineSizes : index_bytes + line > MAX_INDEX_BYTES
  /\ capture' = Idle
  /\ UNCHANGED <<available, entries, bytes_used, index_bytes, payloads, journal,
                 journal_end, captures, returned>>

\* What an interrupted write leaves of the payload: nothing, a part or all.
TornPayload ==
  IF capture.step # "payload" \/ Number \in DOMAIN payloads THEN UNCHANGED payloads
  ELSE \/ UNCHANGED payloads
       \/ \E part \in {0, capture.what} :
            payloads' = [n \in DOMAIN payloads \cup {Number} |->
                           IF n = Number THEN part ELSE payloads[n]]

\* What an interrupted append leaves: no line, an empty new file, a part of the
\* line, all but its newline, or all.
TornJournal ==
  \/ UNCHANGED <<journal, journal_end>>
  \/ /\ capture.step \in {"mention", "journal"}
     /\ \E line \in {l \in LineSizes : index_bytes + l <= MAX_INDEX_BYTES} :
          LET entry == Captured(line) IN
          \/ JournalGrows(entry)
          \/ journal_end = "none" /\ journal_end' = "whole" /\ UNCHANGED journal
          \/ journal_end' = "torn" /\ UNCHANGED journal
          \/ /\ journal_end \notin {"bare", "torn"}
             /\ journal_end' = "bare" /\ journal' = Append(journal, entry)

\* Mutant: the entry of a failed capture keeps its ref.
FailTrusting ==
  /\ capture # Idle
  /\ TornPayload /\ TornJournal
  /\ LET entry == Captured(0)
     IN  /\ entries' = Append(entries, entry)
         /\ returned' = IF entry.ref THEN returned \cup {[n |-> Number, entry |-> entry]}
                        ELSE returned
  /\ available' = FALSE
  /\ capture' = Idle
  /\ UNCHANGED <<bytes_used, index_bytes, captures>>

\* The except clause: a write fails, or the payload file exists already.
Fail ==
  /\ capture # Idle
  /\ TornPayload /\ TornJournal
  /\ entries' = Append(entries, Unavailable)
  /\ available' = FALSE
  /\ capture' = Idle
  /\ UNCHANGED <<bytes_used, index_bytes, captures, returned>>

\* The process dies, in the middle of a write if one is under way.
Die ==
  /\ TornPayload /\ TornJournal
  /\ capture' = Idle /\ available' = FALSE /\ entries' = <<>>
  /\ bytes_used' = 0 /\ index_bytes' = 0
  /\ UNCHANGED <<captures, returned>>

Total(sizes) ==
  LET sum[i \in 0 .. Len(sizes)] == IF i = 0 THEN 0 ELSE sum[i - 1] + sizes[i]
  IN  sum[Len(sizes)]
PayloadBytes(s) == Total([i \in DOMAIN s |-> s[i].size])
JournalBytes(s) == Total([i \in DOMAIN s |-> s[i].line])

\* __init__ with the scope of a process that died: a journal that is missing or
\* cannot be read makes the archive unavailable and empty.
Reopen ==
  /\ available' = (journal_end \in {"whole", "bare"})
  /\ entries' = IF available' THEN journal ELSE <<>>
  /\ bytes_used' = PayloadBytes(entries')
  /\ index_bytes' = JournalBytes(entries')
  /\ UNCHANGED <<payloads, journal, journal_end, capture, captures, returned>>

CaptureStep == WritePayload \/ AppendJournal \/ JournalFull \/ Fail

\* read of entry n: the result, or nothing if the file is missing or altered.
Read(n) ==
  IF /\ n \in DOMAIN entries /\ entries[n].ref
     /\ n \in DOMAIN payloads /\ payloads[n] = entries[n].what
  THEN {[n |-> n, entry |-> entries[n]]} ELSE {}

-----------------------------------------------------------------------------
EntryType ==
  [ref : BOOLEAN, what : 0 .. MaxCaptures, size : {0} \cup Sizes,
   status : {"unknown", "partial", "complete"}, line : {0} \cup LineSizes]

ArchiveTypeOK ==
  /\ available \in BOOLEAN
  /\ entries \in Seq(EntryType) /\ Len(entries) <= MAX_ENTRIES
  /\ journal \in Seq(EntryType)
  /\ journal_end \in {"none", "whole", "bare", "torn"}
  /\ bytes_used \in 0 .. MAX_BYTES /\ index_bytes \in 0 .. MAX_INDEX_BYTES
  /\ DOMAIN payloads \subseteq 1 .. MAX_ENTRIES
  /\ \A n \in DOMAIN payloads : payloads[n] \in 0 .. captures
  /\ capture.step \in {"none", "mention", "payload", "journal"}
  /\ captures \in 0 .. MaxCaptures
  /\ \A r \in returned : r.n \in 1 .. MAX_ENTRIES /\ r.entry \in EntryType

CaptureType ==
  {Idle} \cup [step : {"mention", "payload", "journal"}, what : 0 .. MaxCaptures,
               size : Sizes, status : {"unknown", "partial", "complete"}]

\* A ref names its result in the payloads, in a journal that can be read, and
\* among the entries as far as they go.
IsKept(r) ==
  /\ r = [n |-> r.n, entry |-> r.entry] /\ r.entry.ref
  /\ r.n \in DOMAIN payloads /\ payloads[r.n] = r.entry.what
  /\ journal_end \in {"whole", "bare"} =>
       r.n \in DOMAIN journal /\ journal[r.n] = r.entry
  /\ r.n \in DOMAIN entries => entries[r.n] = r.entry

HasAll == \A r \in returned : r.n \in DOMAIN entries

\* What is in memory and what is on disk tell the same as long as the archive
\* may be written or read back.
ArchiveFits ==
  /\ entries \in Seq(EntryType) /\ journal \in Seq(EntryType)
  /\ journal_end \in {"none", "whole", "bare", "torn"}
  /\ capture \in CaptureType /\ captures \in 0 .. MaxCaptures
  /\ capture # Idle => available
  /\ capture.step = "journal" =>
       Number \in DOMAIN payloads /\ payloads[Number] = capture.what
  /\ available => HasAll /\ (journal_end # "torn" => journal = entries)
  /\ journal_end = "none" => returned = {}
  /\ \A r \in returned : IsKept(r)
=============================================================================
