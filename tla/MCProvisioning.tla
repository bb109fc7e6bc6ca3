--------------------------- MODULE MCProvisioning ---------------------------
(* Provisioning for TLC: values within and past the limits of the host and *)
(* of the node, in several orders.                                         *)
EXTENDS Provisioning
FewSettings ==
  [wifi |-> {"home"}, node_id |-> {7}, channel |-> {11, 20},
   tdm_slot |-> {1}, tdm_total |-> {1, 2},
   hop_channels |-> {<<1, 6, 11>>, <<1, 2, 3, 4, 5, 6, 7>>}, hop_dwell |-> {500}]
=============================================================================
