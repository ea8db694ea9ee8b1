---------------------------- MODULE WindowLedger ----------------------------
(***************************************************************************)
(* What the pipeline promises of the windows of the SAP log API, whatever  *)
(* fails: a ledger of rows and anomalies, written while no window is       *)
(* settled, and a window that is settled only when all it showed is there. *)
(*                                                                         *)
(* The ledger is append-only.  An ALERT_ID has one row, never rewritten.   *)
(* A window that was settled may be opened again, and shown again.         *)
(***************************************************************************)
CONSTANTS
    NoWindow,
    Windows,
    Rows,
    AlertIds

VARIABLES
    window,     \* the settled window; NoWindow while none is
    shown,      \* the rows the last reading showed
    alertIds,   \* the anomalies found in them
    stored,     \* rows in SECURITY_LOGS
    refused,    \* rows that cannot be stored
    recorded    \* rows of ANOMALIES: [id, sent]

ledgerVars == <<window, shown, alertIds, stored, refused, recorded>>

LedgerInit ==
    /\ window = NoWindow
    /\ shown = {}
    /\ alertIds = {}
    /\ stored = {}
    /\ refused = {}
    /\ recorded = {}

Complete ==
    /\ shown \subseteq stored \cup refused
    /\ alertIds \subseteq {a.id : a \in recorded}

\* A reading begins, or what was read is forgotten.
Open ==
    /\ window' = NoWindow
    /\ shown' = {}
    /\ alertIds' = {}
    /\ UNCHANGED <<stored, refused, recorded>>

Show(rows) ==
    /\ window = NoWindow
    /\ shown' = rows
    /\ UNCHANGED <<window, alertIds, stored, refused, recorded>>

Store(rows, bad) ==
    /\ window = NoWindow
    /\ stored' = stored \cup rows
    /\ refused' = refused \cup bad
    /\ UNCHANGED <<window, shown, alertIds, recorded>>

Find(ids) ==
    /\ window = NoWindow
    /\ alertIds' = ids
    /\ UNCHANGED <<window, shown, stored, refused, recorded>>

Record(id, sent) ==
    /\ window = NoWindow
    /\ id \in alertIds
    /\ \A a \in recorded : a.id # id
    /\ recorded' = recorded \cup {[id |-> id, sent |-> sent]}
    /\ UNCHANGED <<window, shown, alertIds, stored, refused>>

Settle(w) ==
    /\ window = NoWindow
    /\ Complete
    /\ window' = w
    /\ UNCHANGED <<shown, alertIds, stored, refused, recorded>>

LedgerNext ==
    \/ Open
    \/ \E rows \in SUBSET Rows : Show(rows)
    \/ \E rows, bad \in SUBSET shown : Store(rows, bad)
    \/ \E ids \in SUBSET AlertIds : Find(ids)
    \/ \E id \in AlertIds, sent \in BOOLEAN : Record(id, sent)
    \/ \E w \in Windows : Settle(w)

LedgerSpec == LedgerInit /\ [][LedgerNext]_ledgerVars
=============================================================================
