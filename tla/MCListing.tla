----------------------------- MODULE MCListing -----------------------------
(***************************************************************************)
(* The instances of MCPipeline, with a reader of the list.                 *)
(***************************************************************************)
EXTENDS MCPipeline, Listing

=============================================================================
