--------------------------- MODULE ReadingLedger ---------------------------
(***************************************************************************)
(* What ingestion promises its callers and its readers.  A reading is      *)
(* recorded at most once for its identity, together with everything that   *)
(* follows from it; the latest reading of a channel only moves forward in  *)
(* time; and a caller is told of a sample only what is already on record.  *)
(***************************************************************************)
EXTENDS Integers

CONSTANTS
  Samples,
  Recordable,        \* the samples that identify a reading
  Reasons,           \* why a sample may be refused
  Identity(_),       \* what makes two samples the same reading
  Channel(_),        \* the channel a reading belongs to
  SameReport(_, _),  \* a repeated sample says what the recorded one said
  Alerts(_)          \* the rules of which a reading leaves an alarm

VARIABLES
  ledger,     \* samples on record
  latest,     \* channel -> the at most one reading shown for it
  alarms,     \* alarms raised, each by a reading
  refused,    \* samples on file as refused, with the reason
  told        \* what callers have been told

ledgerVars == <<ledger, latest, alarms, refused, told>>

LedgerInit ==
  /\ ledger = {}
  /\ \A c \in DOMAIN latest : latest[c] = {}
  /\ alarms = {}
  /\ refused = {}
  /\ told = {}

\* Recording s shows it or leaves the channel as it is, and leaves an alarm of
\* every rule it alerts to: one raised before, or one of its own.
Record(s) ==
  /\ \A r \in ledger : Identity(r) # Identity(s)
  /\ ledger' = ledger \cup {s}
  /\ \/ latest' = latest
     \/ /\ \A r \in latest[Channel(s)] : r.timestamp < s.timestamp
        /\ latest' = [latest EXCEPT ![Channel(s)] = {s}]
  /\ alarms \subseteq alarms'
  /\ \A a \in alarms' \ alarms : a.reading = s /\ a.rule \in Alerts(s)
  /\ \A rule \in Alerts(s) : \E a \in alarms' : a.rule = rule
  /\ UNCHANGED <<refused, told>>

Refuse(s, reason) ==
  /\ refused' = refused \cup {[sample |-> s, reason |-> reason]}
  /\ UNCHANGED <<ledger, latest, alarms, told>>

\* The answers an outcome may be based on.
Justified(out) ==
  CASE out.outcome = "accepted" -> out.sample \in ledger
    [] out.outcome = "duplicate" ->
         \E r \in ledger : Identity(r) = Identity(out.sample) /\ SameReport(r, out.sample)
    [] out.outcome = "conflict_quarantined" ->
         [sample |-> out.sample, reason |-> "conflict_dedup"] \in refused
    [] out.outcome = "rejected_quarantined" ->
         \E r \in refused : r.sample = out.sample /\ r.reason # "conflict_dedup"

Tell ==
  /\ told \subseteq told'
  /\ \A out \in told' \ told : Justified(out)
  /\ UNCHANGED <<ledger, latest, alarms, refused>>

LedgerNext ==
  \/ \E s \in Recordable : Record(s)
  \/ \E s \in Samples, reason \in Reasons : Refuse(s, reason)
  \/ Tell

LedgerSpec == LedgerInit /\ [][LedgerNext]_ledgerVars
=============================================================================
