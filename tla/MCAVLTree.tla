------------------------------ MODULE MCAVLTree ------------------------------
(* One tree, whose node 3 has a successor two levels below its right child. *)
EXTENDS AVLTree

OneTree == {1}
TwelveKeys == 1..12
Deep == {<< <<8, 3, 10, 2, 6, 9, 11, 1, 5, 7, 12, 4>> >>}
=============================================================================
