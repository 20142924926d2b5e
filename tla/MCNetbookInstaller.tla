------------------------- MODULE MCNetbookInstaller -------------------------
(* A hard disk and a memory stick with an installation DVD.                *)
EXTENDS NetbookInstaller

MCListing == <<"disk", "dvd">>
MCKexts == {"kext"}

=============================================================================
