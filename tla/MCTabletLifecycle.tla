------------------------ MODULE MCTabletLifecycle ------------------------
(***************************************************************************)
(* Small instances of TabletLifecycle.  Two addresses are enough for a     *)
(* tablet to be given to another server, two sessions of an address for    *)
(* one restart.                                                            *)
(***************************************************************************)
EXTENDS TabletLifecycle, TLC

\* Addresses are interchangeable: no action or invariant names one.
AddrSymmetry == Permutations(Addr)

=============================================================================
