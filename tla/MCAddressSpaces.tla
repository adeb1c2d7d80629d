-------------------------- MODULE MCAddressSpaces --------------------------
(* Instance of AddressSpaces for TLC: no page is mapped at boot.           *)
EXTENDS AddressSpaces

MCReserved == {0, 1}
MCBootMap == <<>>
=============================================================================
