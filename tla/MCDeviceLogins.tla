--------------------------- MODULE MCDeviceLogins ---------------------------
(* One account: nothing tells two of its devices, two logins or two calls apart. *)
EXTENDS DeviceLogins, TLC

Symmetry == Permutations(Devices) \cup Permutations(Logins) \cup Permutations(LinkRequests)
            \cup Permutations(SignOuts)
=============================================================================
