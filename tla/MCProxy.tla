------------------------------- MODULE MCProxy -------------------------------
(***************************************************************************)
(* Small instances of Proxy.  Only constants are defined here.             *)
(***************************************************************************)
EXTENDS ProxyInvariant, TLC

CONSTANTS t1, t2

MCThreads == {t1, t2}
MCOneThread == {t1}

ThreadSymmetry == Permutations(MCThreads)

\* One call of each kind; Transmit stands for the calls that leave everything
\* as it is.
CoreOps == {"EstablishContext", "ReleaseContext", "Connect", "Transmit",
            "Disconnect"}

EstablishOps == {"EstablishContext"}
=============================================================================
