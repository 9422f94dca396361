------------------------ MODULE MCDeviceApplication ------------------------
(* Values for the constants of DeviceApplication that a .cfg cannot write. *)
EXTENDS DeviceApplication, TLC

CONSTANTS u1, u2, dept1, dept2

\* Users of different departments.
MCDeptOf == [u \in Users |-> IF u = u1 THEN dept1 ELSE dept2]

\* Ids and threads are interchangeable; users and departments are not.
Symmetric == Permutations(Devices) \cup Permutations(Applications)
                \cup Permutations(Requests)
=============================================================================
