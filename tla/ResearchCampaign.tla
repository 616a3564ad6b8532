-------------------------- MODULE ResearchCampaign --------------------------
(***************************************************************************)
(* ResearchCampaign of src/starcom/research.py: the attempts of one        *)
(* campaign and the evidence recorded for them.                            *)
(*                                                                         *)
(* Every operation is one transaction that anybody may call at any time.   *)
(* Source, request and digests of an attempt stand behind its request key; *)
(* of the outcomes the code tells apart SUCCESS and the others.            *)
(***************************************************************************)
EXTENDS Naturals

CONSTANTS Keys,            \* request keys, unique within the campaign
          Waves,           \* the waves callers ask for
          CursorKeys,      \* the cursors callers checkpoint
          MaxObservations  \* bound: observations of one attempt

ASSUME CampaignAssumption == Waves \subseteq Nat \ {0} /\ MaxObservations \in Nat \ {0}

VARIABLES research,   \* research[k]: the attempt with request key k and its evidence
          maxWave     \* max_wave of the campaign

campaign == <<research, maxWave>>

Outcomes == {"SUCCESS", "BLOCKED"}

Attempt == [wave : {0} \cup Waves,                \* 0: not begun
            receipt : {"NONE"} \cup Outcomes,
            observations : 0..MaxObservations,
            cursors : SUBSET CursorKeys]

NotBegun == [wave |-> 0, receipt |-> "NONE", observations |-> 0, cursors |-> {}]

CampaignInit == research = [k \in Keys |-> NotBegun] /\ maxWave = 0

Begun(k) == research[k].wave # 0

\* begin_attempt of a new request: waves never go back.  A request whose key
\* is known is answered with the stored attempt before its wave is looked at.
BeginNew(k, wave) ==
    /\ ~Begun(k)
    /\ wave >= maxWave
    /\ research' = [research EXCEPT ![k].wave = wave]
    /\ maxWave' = wave

\* record_receipt: one receipt for each attempt.
RecordReceipt(k, outcome) ==
    /\ Begun(k)
    /\ research[k].receipt = "NONE"
    /\ research' = [research EXCEPT ![k].receipt = outcome]
    /\ UNCHANGED maxWave

\* record_observation: of a successful attempt, of the snapshot it received.
RecordObservation(k) ==
    /\ research[k].receipt = "SUCCESS"
    /\ research[k].observations < MaxObservations
    /\ research' = [research EXCEPT ![k].observations = research[k].observations + 1]
    /\ UNCHANGED maxWave

\* checkpoint_cursor: UNIQUE (campaign_id, wave, cursor_key).
CheckpointCursor(k, c) ==
    /\ Begun(k)
    /\ research[k].receipt # "NONE"
    /\ \A j \in Keys : research[j].wave = research[k].wave => c \notin research[j].cursors
    /\ research' = [research EXCEPT ![k].cursors = research[k].cursors \cup {c}]
    /\ UNCHANGED maxWave

Evidence(k) == \/ \E outcome \in Outcomes : RecordReceipt(k, outcome)
               \/ RecordObservation(k)
               \/ \E c \in CursorKeys : CheckpointCursor(k, c)

EvidenceStep == \E k \in Keys : Evidence(k)

\* A receipt that is a success has an observation and a cursor.
Backed(a) == a.receipt = "SUCCESS" => a.observations > 0 /\ a.cursors # {}

\* What verify asks of rows nobody tampered with.
CampaignClean == \A k \in Keys : Begun(k) => research[k].receipt # "NONE" /\ Backed(research[k])

\* No attempt and hence no evidence.
CampaignEmpty == maxWave = 0

-----------------------------------------------------------------------------
CampaignTypeOK == research \in [Keys -> Attempt] /\ maxWave \in {0} \cup Waves

=============================================================================
