-------------------------- MODULE MCExtensionHost --------------------------
(* An instance of ExtensionHost: its values are in the configuration.       *)
EXTENDS ExtensionHost
============================================================================
