----------------------------- MODULE MCUploads -----------------------------
(* Three checks of one key at a time, by its owner or another, and a client that puts again.  Keys do not
   meet: what happens to one is what happens to any. *)
EXTENDS Uploads, TLC

MCmaxBytes == [purpose \in Purposes |-> IF purpose = "attendance_photo" THEN 1 ELSE 2]
MCtypes == [purpose \in Purposes |-> IF purpose = "attendance_photo" THEN {"jpeg"} ELSE {"jpeg", "pdf"}]

Interchangeable == Permutations(Calls) \cup Permutations(Keys) \cup Permutations(Users)
=============================================================================
