-------------------------------- MODULE CanId --------------------------------
(***************************************************************************)
(* The 29-bit identifiers of can_node.c: a topic of 9 bits, a sender and a *)
(* receiver of 10 bits each.  Shifts and masks are written as * and %.     *)
(***************************************************************************)
EXTENDS Integers

NodeBits == 1024
TopicBits == 512
NodeId == 0..(NodeBits - 1)
Topic == 0..(TopicBits - 1)

CAN_NODE_BROADCAST_ID == 0

can_node_valid_id(id) == id \div NodeBits = 0

can_id_build(from, to, topic) ==
    (topic % TopicBits) * NodeBits * NodeBits
    + (from % NodeBits) * NodeBits + (to % NodeBits)

can_id_extract_to(id) == id % NodeBits
can_id_extract_from(id) == (id \div NodeBits) % NodeBits
can_id_extract_topic(id) == (id \div (NodeBits * NodeBits)) % TopicBits

(* The controller's filter (external): the identifier agrees with the      *)
(* message object's in every field that the object's mask covers.          *)
Accepts(obj, id) ==
    /\ can_id_extract_topic(obj.mask) # 0 =>
          can_id_extract_topic(id) = can_id_extract_topic(obj.id)
    /\ can_id_extract_from(obj.mask) # 0 =>
          can_id_extract_from(id) = can_id_extract_from(obj.id)
    /\ can_id_extract_to(obj.mask) # 0 =>
          can_id_extract_to(id) = can_id_extract_to(obj.id)
==============================================================================
