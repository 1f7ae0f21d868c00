---------------------------- MODULE QuotaHistory ----------------------------
(***************************************************************************)
(* QuotaManager with one history variable: whether the process has been    *)
(* restarted yet.                                                          *)
(***************************************************************************)
EXTENDS QuotaManager

VARIABLE restarted

HistoryInit == Init /\ restarted = FALSE

HistoryNext ==
  /\ Next
  /\ restarted' = (restarted \/ (mode # "down" /\ mode' = "down"))

historyVars == <<vars, restarted>>

HistorySpec == HistoryInit /\ [][HistoryNext]_historyVars

\* As long as the process is not restarted, the quotas of a disk stay within
\* its capacity and AllocatableSize is what is left (no wrap-around).
WithinCapacityUntilRestart == restarted \/ WithinCapacity

-----------------------------------------------------------------------------
(* The inductive invariant behind it; the proof is in                      *)
(* QuotaAccountingProofs.                                                  *)

\* The operation under way was checked against what its disk has left.
OpFits ==
  op # Nil =>
    LET left == diskQuotaInfos[op.disk].AllocatableSize IN
    IF op.kind = "expand"
      THEN /\ quotas[op.vol].hard <= op.size
           /\ op.size - quotas[op.vol].hard <= left
      ELSE op.size <= left

\* The first start finds no directory with one of the manager's ids.
NothingToLoad ==
  mode \in {"down", "restoring"} =>
    quotas = EmptyMap /\ \A p \in DOMAIN dirs : dirs[p] = Nil

FirstRun ==
  /\ NothingToLoad
  /\ OpFits
  /\ IsFiniteSet(DOMAIN quotas)
  /\ QuotaSizeAccounts
  /\ WithinCapacity

FirstRunInv == restarted \/ FirstRun
=============================================================================
