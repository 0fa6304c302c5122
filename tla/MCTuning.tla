------------------------------- MODULE MCTuning -------------------------------
(* Installations, requests and jobs of RcloneTuning for TLC. *)
EXTENDS RcloneTuning

Env(caps, memory, budget, set) == [caps |-> caps, memory |-> memory, budget |-> budget, set |-> set]
Default == Env(NoValues, 60 * GiB, 0, NoValues)
AllEnvs ==
    { Default,
      Env([checkers |-> 16], 8 * GiB, 0, NoValues),
      Env([transfers |-> 8, multi_thread_streams |-> 0, upload_concurrency |-> 2], 60 * GiB, 0, NoValues),
      Env([transfers |-> 4], 60 * GiB, 0, [transfers |-> 8]),                    \* refused
      Env(NoValues, 60 * GiB, 64 * GiB, [transfers |-> 32, s3_upload_concurrency |-> 16, s3_chunk_size |-> 64]),
      Env(NoValues, 8 * GiB, 0, [buffer_size |-> 128]),
      Env(NoValues, 8 * GiB, 256, [transfers |-> 1]),
      Env(NoValues, 8 * GiB, 256, [transfers |-> 2, buffer_size |-> 32]),                   \* refused
      Env(NoValues, 8 * GiB, 64, [transfers |-> 1, buffer_size |-> 8, azureblob_chunk_size |-> 1]) }
AllOverrides ==
    { NoValues, [transfers |-> 128], [checkers |-> 64], [buffer_size |-> 32],
      [s3_chunk_size |-> 64, s3_upload_concurrency |-> 16, azureblob_chunk_size |-> 4] }
=============================================================================
