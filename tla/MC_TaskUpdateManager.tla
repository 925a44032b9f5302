------------------------- MODULE MC_TaskUpdateManager -------------------------
EXTENDS TaskUpdateManager, TLC

CONSTANTS t1, t2, x1, x2, m1, m2, k1, k2, v1, v2

\* Two tasks and two contexts, so that every kind of identity mismatch occurs.
MCTaskIDs == {t1, t2}
MCContextIDs == {x1, x2}
MCMessages == {m1, m2}
MCStates == {"submitted", "completed"}
\* Two keys, so that a merge and a replacement of the Task's metadata differ.
MCMetaKeys == {k1, k2}
MCMetaVals == {v1, v2}
\* Event Metadata: none (nil), or one key set; merged over several updates
\* the Task's Metadata comes to hold both keys.
MCEventMetas == {[k \in MCMetaKeys |-> IF k = j THEN v ELSE Absent] :
                    j \in MCMetaKeys, v \in MCMetaVals \cup {Absent}}

=============================================================================
