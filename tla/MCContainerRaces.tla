-------------------------- MODULE MCContainerRaces --------------------------
(* A packet with two items, the values of two names.                        *)
EXTENDS ContainerRaces
TwoItems == <<"a", "b">>
=============================================================================
