----------------------------- MODULE MCSurfaces -----------------------------
(* What runs beside the execution lock: liquidity deliveries of two        *)
(* surfaces, two runs of the swap command, the transport they read         *)
(* through, and digest mails, each on its own.                             *)
EXTENDS LpDelivery, SwapExecutor, RpcTransport, DailyDigest, TLC

VARIABLE part  \* which of them runs

(* The same two processes deliver and send digests.                        *)
ProcSymmetry == Permutations(Proc \cup Sender)

(* Bound: one dry run at a time, once all the bounded broadcasts are made  *)
(* and with something to repair, beside hard exits of both processes.      *)
OneDryRun == \A p \in Proc : sess[p].surface = "dry" =>
                 /\ sends = MaxSends
                 /\ sess[p].pc = "journal" => Gaps # {}
                 /\ \A q \in Proc \ {p} : sess[q].surface # "dry"

SurfaceInit ==
    /\ part \in {"lp", "swap", "rpc", "mail"}
    /\ Init /\ SwapInit /\ TransportInit /\ DigestInit

SurfaceNext ==
    /\ UNCHANGED part
    /\ \/ part = "lp" /\ Next /\ OneDryRun' /\ UNCHANGED <<swapVars, rpcVars, digestVars>>
       \/ part = "swap" /\ SwapNext /\ UNCHANGED <<vars, rpcVars, digestVars>>
       \/ part = "rpc" /\ TransportNext /\ UNCHANGED <<vars, swapVars, digestVars>>
       \/ part = "mail" /\ DigestNext /\ UNCHANGED <<vars, swapVars, rpcVars>>

(* Every part keeps the types of its variables.                            *)
SurfaceTypeOK ==
    CASE part = "swap" -> SwapTypeOK
      [] part = "rpc"  -> TransportTypeOK
      [] part = "mail" -> DigestTypeOK
      [] OTHER -> TRUE

SurfaceSpec == SurfaceInit /\ [][SurfaceNext]_<<part, vars, swapVars, rpcVars, digestVars>>
=============================================================================
