----------------------------- MODULE MCServices -----------------------------
(***************************************************************************)
(* Three services that share nothing but the database, checked side by     *)
(* side: a behaviour is one of the stage queue, one of the reports of      *)
(* failures or one of the exports, and the others rest.                    *)
(*                                                                         *)
(* Queue: two rows of one queue, two worker processes with one slot each,  *)
(* three attempts.  Reports: two workers fail the same stage of the same   *)
(* document; "timeout" and "quota" are the same category.  Exports: three  *)
(* of them, one with a key that cannot be deleted, and sweeps of two rows. *)
(***************************************************************************)
EXTENDS StageQueue, AlertDelivery, ExportJobs, TLC

VARIABLE service

MCCap == [q \in Queue |-> 1]
MCCategoryOf == ("timeout" :> "llm") @@ ("quota" :> "llm") @@ ("bad_json" :> "extraction")

Init == QueueInit /\ DeliveryInit /\ ExportInit /\ service \in {"queue", "reports", "exports"}

Next ==
    /\ UNCHANGED service
    /\ \/ service = "queue" /\ QueueNext /\ UNCHANGED <<deliveryVars, exportVars>>
       \/ service = "reports" /\ DeliveryNext /\ UNCHANGED <<queueVars, exportVars>>
       \/ service = "exports" /\ ExportNext /\ UNCHANGED <<queueVars, deliveryVars>>

Spec == Init /\ [][Next]_<<service, queueVars, deliveryVars, exportVars>>

\* The fairness of each service; of those that rest nothing is enabled.
FairSpec ==
    /\ Spec
    /\ QueueFairness
    /\ \A w \in Worker : WF_deliveryVars(ReportStep(w))
    /\ WF_exportVars(PurgeStep)
=============================================================================
