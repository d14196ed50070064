------------------------------ MODULE Lifecycle -----------------------------
(***************************************************************************)
(* module.c with the init and free functions of every layer: loading and   *)
(* unloading the driver, step by step, while the chip, processes that use  *)
(* the device and timers call into it.                                     *)
(*                                                                         *)
(* What a layer acquires (pins, handlers, registrations, buffers) is a     *)
(* name.  A layer is a sequence of acquisitions, any of which the kernel   *)
(* may refuse; init_module runs the layers in order and undoes them on an  *)
(* error.  What goes on inside the layers is the subject of Radio and      *)
(* Stack: here an operation is the list of places it passes, and a place   *)
(* is the pieces it uses.  Using a piece that is not there ends the run.   *)
(***************************************************************************)
EXTENDS Integers, Sequences, FiniteSets, SequencesExt

CONSTANTS MaxLoads        \* how often the module is loaded

ASSUME LifecycleAssumption == MaxLoads \in Nat

VARIABLES
  phase,       \* "absent", "init", "undo", "ready" or "cleanup"
  layer, step, \* the layer init_module is at and the acquisition in it
  todo,        \* the free functions that remain to be called
  held,        \* what this load has acquired
  left,        \* what earlier loads never gave back, of what there is only one of
  bound,       \* layers that have set their function pointers
  bus,         \* devices on the SPI bus: the load that added each, 0 the board
  spi_device,  \* state.spi_device
  loads,
  chip,        \* "off" or "on": the chip keeps its state across loads
  open,        \* does a process have the device open: "no", "yes" or "stale"
  path,        \* what the process and the reception have before them
  lpl_timer,   \* "off", "armed" or "stale"
  oops,        \* something was used that is not there
  refused,     \* what the kernel refused this load
  careless     \* how this load of the module has been used carelessly

loadVars == <<phase, layer, step, todo, held, left, bound, bus, spi_device, loads, refused>>
useVars  == <<chip, open, path, lpl_timer>>
vars     == <<loadVars, useVars, oops, careless>>

-----------------------------------------------------------------------------
(* What each layer acquires, in order.                                     *)

cc2520_plat_gpio_init == <<"pins", "fifop_irq", "sfd_irq">>
cc2520_plat_spi_init  == <<"spi_dev", "spi_drv">>
cc2520_interface_init == <<"tx_buf_c", "rx_buf_c", "chrdev", "cdev", "class", "node">>
cc2520_radio_init     == <<"tx_buf", "rx_buf", "rx_out_buf", "rx_in_buf", "tx_buf_r", "rx_buf_r">>
cc2520_lpl_init       == <<"lpl_buf">>
cc2520_sack_init      == <<"ack_buf", "sack_tx_buf", "sack_rx_buf">>
cc2520_csma_init      == <<"csma_buf", "csma_wq">>
cc2520_unique_init    == << >>

Layers == <<"gpio", "spi", "interface", "radio", "lpl", "sack", "csma", "unique">>
Init_of == [gpio |-> cc2520_plat_gpio_init, spi |-> cc2520_plat_spi_init,
            interface |-> cc2520_interface_init, radio |-> cc2520_radio_init,
            lpl |-> cc2520_lpl_init, sack |-> cc2520_sack_init,
            csma |-> cc2520_csma_init, unique |-> cc2520_unique_init]

\* class_create and device_create report failure with a pointer that is not
\* NULL, and nothing looks at what create_singlethread_workqueue returned
Unnoticed == {"class", "node", "wq"}

\* What a second load cannot have while the first has it: gpio_request and
\* request_irq (without IRQF_SHARED) refuse, a name is taken.  Memory, work queues
\* and the device number, which the kernel chooses, there are enough of
Exclusive == {"pins", "fifop_irq", "sfd_irq", "spi_drv", "class", "node"}

(* What each layer releases, in its free function and when its own init    *)
(* fails.                                                                  *)

\* Mutant: the second handler is forgotten
gpio_free_keepsSfd == {"pins", "fifop_irq"}
cc2520_plat_gpio_free == ToSet(cc2520_plat_gpio_init)

\* It waits for a write that is under way, but a signal ends the wait and it goes
\* on.  unregister_chrdev is given the whole device number where it wants the
\* major: the region stays
cc2520_interface_free == ToSet(cc2520_interface_init) \ {"chrdev"}
interface_init_error  == {"tx_buf_c", "rx_buf_c"}

cc2520_radio_free == ToSet(cc2520_radio_init)
cc2520_lpl_free   == ToSet(cc2520_lpl_init)
cc2520_csma_free  == ToSet(cc2520_csma_init)
\* cur_rx_buf is forgotten
cc2520_sack_free  == {"ack_buf", "sack_tx_buf"}

\* spi_free also removes the device, if probe has seen one
cc2520_plat_spi_free == {"spi_drv"} \cup (IF spi_device # 0 THEN {"spi_dev"} ELSE {})
spi_init_error       == {"spi_drv"}

Frees(l) ==
  CASE l = "gpio"      -> cc2520_plat_gpio_free
    [] l = "spi"       -> cc2520_plat_spi_free
    [] l = "interface" -> cc2520_interface_free
    [] l = "radio"     -> cc2520_radio_free
    [] l = "lpl"       -> cc2520_lpl_free
    [] l = "sack"      -> cc2520_sack_free
    [] l = "csma"      -> cc2520_csma_free
    [] l = "wq"        -> {"wq"}

OnError(l) ==
  CASE l = "spi"       -> spi_init_error
    [] l = "interface" -> interface_init_error
    [] OTHER           -> Frees(l)

-----------------------------------------------------------------------------
(* Where an operation passes, and the layer and the pieces it needs there. *)

Path == [write |-> <<"interface_write", "unique_tx", "lpl_tx", "csma_tx", "sack_tx", "radio_tx">>,
         read  |-> <<"interface_read">>,
         on    |-> <<"radio_on">>,
         off   |-> <<"radio_off">>,
         fifop |-> <<"radio_rx", "sack_rx", "csma_rx", "lpl_rx", "unique_rx", "interface_rx">>]

Needs == [interface_write |-> {"tx_buf_c"},   interface_read |-> {"rx_buf_c"},
          interface_rx    |-> {"interface", "rx_buf_c"},
          unique_tx       |-> {"unique"},     unique_rx |-> {"unique"},
          lpl_tx          |-> {"lpl", "lpl_buf"},
          lpl_rx          |-> {"lpl"},
          csma_tx         |-> {"csma", "csma_buf", "csma_wq"},
          csma_rx         |-> {"csma"},
          sack_tx         |-> {"sack", "sack_tx_buf"},
          sack_rx         |-> {"sack", "sack_rx_buf", "ack_buf", "radio", "tx_buf_r"},
          radio_tx        |-> {"radio", "tx_buf", "rx_buf", "tx_buf_r", "spi_device"},
          radio_on        |-> {"tx_buf", "rx_buf", "spi_device"},
          radio_off       |-> {"tx_buf", "rx_buf", "spi_device"},
          radio_rx        |-> {"rx_out_buf", "rx_in_buf", "rx_buf_r", "spi_device"},
          gone            |-> {"the module"}]

There == IF phase = "absent" THEN {}
         ELSE held \cup bound \cup (IF spi_device # 0 THEN {"spi_device"} ELSE {})

-----------------------------------------------------------------------------
TypeOK ==
  /\ phase \in {"absent", "init", "undo", "ready", "cleanup"}
  /\ layer \in 1..Len(Layers) + 1
  /\ step \in 0..(IF layer > Len(Layers) THEN 0 ELSE Len(Init_of[Layers[layer]]))
  /\ ToSet(todo) \subseteq ToSet(Layers) \cup {"wq"}
  /\ loads \in 0..MaxLoads
  /\ left \subseteq Exclusive
  /\ bus \subseteq 0..loads
  /\ spi_device \in 0..loads
  /\ bound \subseteq ToSet(Layers)
  /\ chip \in {"off", "on"}
  /\ open \in {"no", "yes", "stale"}
  /\ lpl_timer \in {"off", "armed", "stale"}
  /\ oops \in BOOLEAN
  /\ DOMAIN path = {"process", "reception"}
  /\ careless \subseteq {"early", "on", "hasty"}

\* The board may come with a device of its own at that chip select
Init ==
  /\ phase = "absent" /\ layer = 1 /\ step = 0 /\ todo = << >>
  /\ held = {} /\ left = {} /\ bound = {}
  /\ bus \in {{}, {0}}
  /\ spi_device = 0 /\ loads = 0
  /\ chip = "off" /\ open = "no"
  /\ path = [c \in {"process", "reception"} |-> << >>]
  /\ lpl_timer = "off" /\ oops = FALSE
  /\ refused = {} /\ careless = {}

-----------------------------------------------------------------------------
(* init_module.                                                            *)

\* What is still going on of an earlier load: the chip receives, a reception or
\* the timer is under way, a process has the device open
Inherited ==
  { k \in {"on", "hasty", "early"} :
      CASE k = "on"    -> chip = "on"
        [] k = "hasty" -> path["reception"] # << >> \/ lpl_timer # "off"
        [] k = "early" -> open # "no" }

init_module ==
  /\ phase = "absent"
  /\ loads < MaxLoads
  /\ loads' = loads + 1
  /\ phase' = "init" /\ layer' = 1 /\ step' = 0 /\ todo' = << >>
  /\ held' = {} /\ bound' = {} /\ spi_device' = 0 /\ refused' = {}
  /\ left' = left \cup (held \cap Exclusive)
  /\ careless' = Inherited
  /\ UNCHANGED <<bus, useVars, oops>>

This == Layers[layer]
Wants == Init_of[This][step]
Loading == phase = "init" /\ layer <= Len(Layers)

\* A layer begins by setting the pointers its neighbours call
Bind ==
  /\ Loading /\ step = 0
  /\ bound' = IF This \in {"gpio", "spi"} THEN bound ELSE bound \cup {This}
  /\ IF Init_of[This] = << >> THEN layer' = layer + 1 /\ step' = 0
                              ELSE step' = 1 /\ UNCHANGED layer
  /\ UNCHANGED <<phase, todo, held, left, bus, spi_device, loads, refused, useVars, oops, careless>>

\* Mutant of Advance: one acquisition too many
Advance_late ==
  IF step > Len(Init_of[This]) THEN layer' = layer + 1 /\ step' = 0
                               ELSE step' = step + 1 /\ UNCHANGED layer

\* The layer goes on to its next acquisition, init_module to the next layer
Advance ==
  IF step = Len(Init_of[This]) THEN layer' = layer + 1 /\ step' = 0
                               ELSE step' = step + 1 /\ UNCHANGED layer

\* Mutant of still_on_bus: a device that is there already is left alone
still_on_bus_all == bus

\* cc2520_spi_add_to_bus: a device that has the chip select is removed first
still_on_bus == {}

\* Nothing of an earlier load is in the way, nor at the chip select
Vacant == Wants \notin left /\ (Wants = "spi_dev" => still_on_bus = {})

\* Without a class there is no node
Possible == Vacant /\ (Wants = "node" => "class" \in held)

Acquire ==
  /\ Loading /\ step > 0
  /\ Possible
  /\ held' = held \cup {Wants}
  /\ bus' = IF Wants = "spi_dev" THEN {loads} ELSE bus
  /\ spi_device' = IF Wants = "spi_drv" THEN CHOOSE d \in bus : TRUE ELSE spi_device
  /\ Advance
  /\ UNCHANGED <<phase, todo, left, bound, loads, refused, useVars, oops, careless>>

\* The layer releases what it has, and init_module frees the ones before it.
\* The bus may be refused before the device that was there is removed or after
Refuse ==
  /\ Loading /\ step > 0
  /\ Wants \notin Unnoticed
  /\ refused' = IF Vacant THEN refused \cup {Wants} ELSE refused
  /\ \/ UNCHANGED bus
     \/ Wants = "spi_dev" /\ bus' = still_on_bus
  /\ phase' = "undo"
  /\ todo' = Reverse(SubSeq(Layers, 1, layer - 1))
  /\ held' = held \ OnError(This)
  /\ UNCHANGED <<layer, step, left, bound, spi_device, loads, useVars, oops, careless>>

RefuseUnnoticed ==
  /\ Loading /\ step > 0
  /\ Wants \in Unnoticed
  /\ refused' = IF Vacant THEN refused \cup {Wants} ELSE refused
  /\ Advance
  /\ UNCHANGED <<phase, todo, held, left, bound, bus, spi_device, loads, useVars, oops, careless>>

\* The last thing init_module does
create_workqueue ==
  /\ phase = "init" /\ layer > Len(Layers)
  /\ phase' = "ready"
  /\ \/ held' = held \cup {"wq"} /\ UNCHANGED refused
     \/ refused' = refused \cup {"wq"} /\ UNCHANGED held
  /\ UNCHANGED <<layer, step, todo, left, bound, bus, spi_device, loads, useVars, oops, careless>>
-----------------------------------------------------------------------------
(* The free functions, after an error and in cleanup_module.               *)

\* Mutant of cleanup_module: an open file does not hold the module
cleanup_module_unheld ==
  /\ phase = "ready"
  /\ phase' = "cleanup"
  /\ todo' = <<"wq", "interface", "gpio", "spi">>
  /\ careless' = careless \cup (Inherited \ {"early"})
  /\ UNCHANGED <<layer, step, held, left, bound, bus, spi_device, loads, refused, useVars, oops>>

\* The kernel unloads a module that no open file holds
cleanup_module ==
  /\ phase = "ready"
  /\ open = "no"
  /\ phase' = "cleanup"
  /\ todo' = <<"wq", "interface", "gpio", "spi">>
  /\ careless' = careless \cup (Inherited \ {"early"})
  /\ UNCHANGED <<layer, step, held, left, bound, bus, spi_device, loads, refused, useVars, oops>>

\* destroy_workqueue(NULL), and device_destroy of a class that was not created
BadFree(l) ==
  \/ l = "wq" /\ "wq" \notin held
  \/ l = "interface" /\ "class" \notin held

Free ==
  /\ phase \in {"undo", "cleanup"}
  /\ todo # << >>
  /\ LET l == Head(todo) IN
       /\ held' = held \ Frees(l)
       /\ IF l = "spi" THEN bus' = bus \ {spi_device} /\ spi_device' = 0
                       ELSE UNCHANGED <<bus, spi_device>>
       /\ lpl_timer' = IF l = "lpl" THEN "off" ELSE lpl_timer
       /\ oops' = BadFree(l)
  /\ todo' = Tail(todo)
  /\ UNCHANGED <<phase, layer, step, left, bound, loads, refused, chip, open, path, careless>>

\* The module's memory is released
Gone ==
  /\ phase \in {"undo", "cleanup"}
  /\ todo = << >>
  /\ phase' = "absent"
  /\ path' = [c \in DOMAIN path |-> IF path[c] = << >> THEN << >> ELSE <<"gone">>]
  /\ open' = IF open = "no" THEN "no" ELSE "stale"
  /\ lpl_timer' = IF lpl_timer = "off" THEN "off" ELSE "stale"
  /\ UNCHANGED <<layer, step, todo, held, left, bound, bus, spi_device, loads, refused,
                 chip, oops, careless>>

-----------------------------------------------------------------------------
(* The calls into the driver.                                              *)

\* The device can be opened as soon as it is in /dev
Open ==
  /\ phase \in {"init", "undo", "ready"}
  /\ {"cdev", "node"} \subseteq held
  /\ open = "no"
  /\ open' = "yes"
  /\ careless' = IF phase = "ready" THEN careless ELSE careless \cup {"early"}
  /\ UNCHANGED <<loadVars, chip, path, lpl_timer, oops>>

Close ==
  /\ open = "yes" /\ path["process"] = << >>
  /\ open' = "no"
  /\ UNCHANGED <<loadVars, chip, path, lpl_timer, oops, careless>>

Call(op) ==
  /\ open # "no" /\ path["process"] = << >>
  /\ path' = [path EXCEPT !["process"] = IF open = "stale" THEN <<"gone">> ELSE Path[op]]
  /\ UNCHANGED <<loadVars, chip, open, lpl_timer, oops, careless>>

Fifop ==
  /\ chip = "on" /\ "fifop_irq" \in held
  /\ path["reception"] = << >>
  /\ path' = [path EXCEPT !["reception"] = Path["fifop"]]
  /\ UNCHANGED <<loadVars, chip, open, lpl_timer, oops, careless>>

\* One place on the way.  A write that has been sent may leave the timer of low
\* power listening behind
Step(c) ==
  /\ path[c] # << >>
  /\ LET at == Head(path[c]) IN
       /\ oops' = ~(Needs[at] \subseteq There)
       /\ chip' = CASE at = "radio_on" -> "on" [] at = "radio_off" -> "off" [] OTHER -> chip
       /\ \/ UNCHANGED lpl_timer
          \/ at = "radio_tx" /\ lpl_timer' = "armed"
  /\ path' = [path EXCEPT ![c] = Tail(@)]
  /\ UNCHANGED <<loadVars, open, careless>>

Expire ==
  /\ lpl_timer # "off"
  /\ oops' = (lpl_timer = "stale")
  /\ lpl_timer' = "off"
  /\ UNCHANGED <<loadVars, chip, open, path, careless>>

Next ==
  /\ ~oops
  /\ \/ init_module \/ Bind \/ Acquire \/ Refuse \/ RefuseUnnoticed \/ create_workqueue
     \/ cleanup_module \/ Free \/ Gone
     \/ Open \/ Close \/ Fifop \/ Expire
     \/ \E op \in {"write", "read", "on", "off"} : Call(op)
     \/ \E c \in {"process", "reception"} : Step(c)

Spec == Init /\ [][Next]_vars

-----------------------------------------------------------------------------
(* Properties.                                                             *)

\* Whoever opens the device only once the module has been loaded, and has the
\* radio off and its last operation settled before it is loaded or unloaded,
\* never finds a buffer, a handler or the module itself missing, whatever the
\* kernel refuses (but for the refusals init_module does not notice).
CarefulUseSafe == oops => careless # {} \/ refused \cap {"class", "wq"} # {}

\* When the module is gone the kernel keeps no registration that calls into it (of
\* its work queues csma_wq stays after cleanup_module, with nothing queued), and a
\* load that failed leaves no more than a device number, the device on the bus and
\* one buffer.  A file is still open, the timer still runs or a reception is still
\* under way only if that load was used carelessly: opened before it was complete,
\* or with the radio on or something under way when it was loaded or unloaded.
NothingCallsIn ==
  phase = "absent" =>
    /\ held \cap {"fifop_irq", "sfd_irq", "cdev", "node", "spi_drv", "wq"} = {}
    /\ refused \subseteq Unnoticed \/ held \subseteq {"chrdev", "spi_dev", "sack_rx_buf"}
    /\ open # "no" => "early" \in careless
    /\ lpl_timer # "off" => careless \cap {"early", "hasty"} # {}
    /\ path["reception"] # << >> => careless # {}

\* Nothing that an earlier load left behind (a pin, a handler, a name, a device on
\* the bus) makes a load fail, and a load that succeeds talks to the device it put
\* on the bus, which is the only one there.
LoadNotBlocked ==
  /\ phase = "undo" => ~(refused \subseteq Unnoticed)
  /\ phase = "ready" => spi_device = loads /\ bus = {loads}
=============================================================================
