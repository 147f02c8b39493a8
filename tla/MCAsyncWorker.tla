---------------------------- MODULE MCAsyncWorker ----------------------------
(* Instantiates AsyncWorker for TLC: a queue of two, three request ids so  *)
(* that the queue fills and a submit is refused, and two starts so that a  *)
(* worker is restarted after a shutdown/wait cycle or a failed start.      *)
EXTENDS AsyncWorker

MCMaxQueue == 2
MCMaxRequests == 3
MCMaxStarts == 2
MCKinds == {"git_status", "custom"}
=============================================================================
