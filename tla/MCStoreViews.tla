---------------------------- MODULE MCStoreViews ---------------------------
(***************************************************************************)
(* Two hosts, one of them with and without a port; its paths are "/",      *)
(* "/x", "/x/" and "/x/y".                                                 *)
(***************************************************************************)
EXTENDS StoreViews

A == [base |-> "a", port |-> None]
A443 == [base |-> "a", port |-> "443"]
B == [base |-> "b", port |-> None]

KindsMC ==
    {[host |-> A, path |-> p] : p \in {<<"">>, <<"x">>, <<"x", "">>, <<"x", "y">>}}
      \cup {[host |-> A443, path |-> <<"x">>], [host |-> B, path |-> <<"x">>]}

=============================================================================
