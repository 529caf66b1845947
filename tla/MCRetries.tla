----------------------------- MODULE MCRetries -----------------------------
(* A call of three IDs, with the numbers of delays of config.py.           *)
EXTENDS Retries

=============================================================================
