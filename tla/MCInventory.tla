----------------------------- MODULE MCInventory -----------------------------
(* Ports, an emulated device, a few ids and a connection of the proxy. *)
EXTENDS UsbipProxy
=============================================================================
