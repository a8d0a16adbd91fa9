----------------------------- MODULE MCAuditRun -----------------------------
(* Instances of AuditRun and the reader beside it for TLC. *)
EXTENDS SnapshotReader

CONSTANTS r1, a1, a2, a3, incident

OneRun == {r1}
TwoActions == {a1, a2}
ThreeActions == {a1, a2, a3}
OneAction == {a1}

(* The incident was never charged beyond the setting, or it was. *)
WithinLimit == {1}
AroundLimit == {1, 3}
============================================================================
