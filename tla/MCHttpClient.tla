---------------------------- MODULE MCHttpClient ----------------------------
(* HttpClient for model checking: symmetry over the producers.             *)
EXTENDS HttpClient, TLC

ProducerSymmetry == Permutations(Producer)
=============================================================================
