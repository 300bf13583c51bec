---------------------------- MODULE MCRunMatrix ----------------------------
(* Small matrices: two loops next to each other, two loops with others     *)
(* between them, a combination the launch file refuses.                    *)
EXTENDS RunMatrix

Base ==
  [executor |-> <<"events">>, num_subscriptions |-> <<1>>, num_timers |-> <<0>>,
   num_nodes |-> <<1>>, num_threads |-> <<4>>, callback_group |-> <<"reentrant">>,
   callback_work_us |-> <<0>>, payload_bytes |-> <<1024>>, publish_mode |-> <<"burst">>,
   use_ipc |-> <<FALSE>>]

SmallMatrices ==
  {[Base EXCEPT !.publish_mode = <<"burst", "round_robin">>],
   [Base EXCEPT !.executor = <<"events", "multi_threaded">>,
                !.payload_bytes = <<1024, 1536>>],
   [Base EXCEPT !.num_subscriptions = <<1, 0>>, !.num_timers = <<1>>],
   [Base EXCEPT !.num_subscriptions = <<1, 10>>, !.use_ipc = <<FALSE, TRUE>>]}

ProcessGenerator == [generator_mode |-> "process", rate_min_hz |-> 63, rate_max_hz |-> 2000]

WideScheme == {"num_subscriptions", "num_threads", "callback_group", "payload_bytes"}
=============================================================================
