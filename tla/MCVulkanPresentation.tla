------------------------ MODULE MCVulkanPresentation ------------------------
(* Model values for checking VulkanPresentation with TLC. *)
EXTENDS VulkanPresentation

CONSTANTS f1, f2, f3

Frames3 == {f1, f2, f3}

=============================================================================
