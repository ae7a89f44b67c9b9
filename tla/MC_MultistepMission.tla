------------------------- MODULE MC_MultistepMission -------------------------
\* Deliveries with one disturbance to begin with and one more at each of two steps.
EXTENDS MultistepMission

Nominal ==
    [sigma |-> 5, human |-> 200, estop |-> FALSE, battery |-> 16, max_speed |-> 40,
     payload_kg |-> 2, locked |-> TRUE, mismatch |-> FALSE,
     door_held |-> TRUE, private_zone |-> FALSE, route_safe |-> TRUE,
     carry_go |-> TRUE, loaded |-> TRUE, elevator_required |-> TRUE,
     requested |-> "navigate_to_dropoff", completed |-> {"localize"},
     authenticated |-> FALSE, capacity |-> TRUE,
     queue |-> FALSE, conflict |-> FALSE, deadlock |-> FALSE,
     dock_queue |-> FALSE, nearby |-> FALSE,
     corridor |-> "free", priority |-> 2, peer_priority |-> 0,
     position |-> <<2, 1>>, dock |-> <<0, 0>>, elapsed |-> 2]

Set(field, values) == {[f \in {field} |-> v] : v \in values}

Peer(p) == [corridor |-> "peer known", peer_priority |-> p]

MCPatches ==
    UNION {
        {<<>>},
        Set("sigma", {20, 80}), Set("human", {29}), Set("estop", {TRUE}),
        Set("battery", {12, 15}), Set("max_speed", {10, 60}),
        Set("payload_kg", {11}), Set("locked", {FALSE}), Set("mismatch", {TRUE}),
        Set("door_held", {FALSE}), Set("route_safe", {FALSE}),
        Set("private_zone", {TRUE}), Set("carry_go", {FALSE}), Set("loaded", {FALSE}),
        Set("requested", {"none", "ride_elevator", "handoff_payload"}),
        Set("completed", {Subtasks}), Set("authenticated", {TRUE}),
        Set("capacity", {FALSE}), Set("queue", {TRUE}), Set("conflict", {TRUE}),
        Set("deadlock", {TRUE}), Set("dock_queue", {TRUE}),
        Set("corridor", {"peer unknown"}), {Peer(2), Peer(3), Peer(5)}}

MCInitial ==
    {Patched(Nominal, p) : p \in MCPatches \cup Set("position", {<<0, 0>>, <<-1, -2>>})}

=============================================================================
