------------------------------ MODULE MCAsyncTask ------------------------------
(* Two rings that hold two events each; names for two threads on each queue.  *)
EXTENDS AsyncTask

CONSTANTS u

OneEvent  == {u}
NoTrigger == {}

=============================================================================
