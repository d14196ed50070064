-------------------------- MODULE LifecycleProofs ---------------------------
(***************************************************************************)
(* Proofs about Lifecycle: what a load that failed or was unloaded leaves  *)
(* behind, and what a careful use of the module may rely on, for any       *)
(* number of loads.                                                        *)
(***************************************************************************)
EXTENDS Lifecycle, TLAPS

Freed == {"gpio", "spi", "interface", "radio", "lpl", "sack", "csma", "wq"}
\* What calls into the module, and what the next load could not have
Owed == {"pins", "fifop_irq", "sfd_irq", "cdev", "class", "node", "spi_drv", "wq"}
Left == {"chrdev", "spi_dev", "sack_rx_buf"}
Users == {"process", "reception"}

Pieces(l) == IF l = "wq" THEN {"wq"} ELSE ToSet(Init_of[l])

\* What the layers before the k-th acquire, and what this load has asked for
Done(k) == UNION { ToSet(Init_of[Layers[j]]) : j \in 1..(k - 1) }
Asked == Done(layer) \cup { Init_of[Layers[layer]][i] : i \in 1..(step - 1) }

\* What the free functions that remain are responsible for
Pending == UNION { Pieces(todo[i]) : i \in DOMAIN todo }

\* A load holds what it has asked for, but for what was refused unnoticed, and
\* from the SPI layer on its own device is the one on the bus
LoadInv ==
  /\ phase = "init" =>
       /\ loads > 0
       /\ held \subseteq Asked
       /\ Asked \subseteq held \cup refused
       /\ refused \subseteq {"class", "node"}
       /\ { Layers[j] : j \in 3..(layer - 1) } \subseteq bound
       /\ step > 0 /\ layer > 2 => Layers[layer] \in bound
       /\ layer > 2 \/ (layer = 2 /\ step = 2) => bus = {loads}
       /\ layer > 2 => spi_device = loads
  /\ phase = "ready" =>
       /\ loads > 0
       /\ refused \subseteq Unnoticed
       /\ Done(9) \cup {"wq"} \subseteq held \cup refused
       /\ { Layers[j] : j \in 3..8 } \subseteq bound
       /\ spi_device = loads /\ bus = {loads}

\* No free function is called twice; what is Owed is held only
\* while the function that releases it remains
FreeInv ==
  /\ todo \in Seq(Freed)
  /\ \A i, j \in DOMAIN todo : todo[i] = todo[j] => i = j
  /\ phase \in {"absent", "init", "ready"} => todo = << >>
  /\ phase \in {"undo", "cleanup", "absent"} =>
       /\ held \cap Owed \subseteq Pending
       /\ refused \subseteq Unnoticed \/ held \subseteq Pending \cup Left
  /\ phase = "undo" => ~(refused \subseteq Unnoticed) /\ "wq" \notin ToSet(todo)
  /\ phase = "cleanup" => refused \subseteq Unnoticed
  /\ "wq" \in ToSet(todo) => "wq" \in held \cup refused
  /\ "interface" \in ToSet(todo) => "class" \in held \cup refused

\* A careful user has nothing under way unless the module is loaded
UseInv ==
  /\ path \in [Users -> Seq(DOMAIN Needs)]
  /\ path["process"] # << >> => open # "no"
  /\ careless = {} =>
       /\ open # "stale" /\ lpl_timer # "stale"
       /\ \A c \in Users : "gone" \notin ToSet(path[c])
       /\ phase # "ready" =>
            /\ open = "no" /\ chip = "off" /\ lpl_timer = "off"
            /\ \A c \in Users : path[c] = << >>

\* Nothing is left that the next load could not have; while the module is not
\* loaded a file is open only if it was opened early, and the timer runs only if
\* that was so or it was running before: a reception does not start it
LeftInv ==
  /\ left = {}
  /\ "radio_tx" \notin ToSet(path["reception"])
  /\ phase # "ready" =>
       /\ open # "no" => "early" \in careless
       /\ lpl_timer # "off" => careless \cap {"early", "hasty"} # {}

LifecycleInv == TypeOK /\ LoadInv /\ FreeInv /\ UseInv /\ LeftInv /\ CarefulUseSafe

-----------------------------------------------------------------------------
(* The tables.                                                             *)

\* The layers in their order
LEMMA LayerOrder ==
  /\ Len(Layers) = 8
  /\ Layers[1] = "gpio" /\ Layers[2] = "spi" /\ Layers[3] = "interface"
  /\ Layers[4] = "radio" /\ Layers[5] = "lpl" /\ Layers[6] = "sack"
  /\ Layers[7] = "csma" /\ Layers[8] = "unique"
  BY DEF Layers

\* What each layer acquires
LEMMA LayerInit ==
  /\ Init_of["gpio"] = <<"pins", "fifop_irq", "sfd_irq">>
  /\ Init_of["spi"] = <<"spi_dev", "spi_drv">>
  /\ Init_of["interface"] = <<"tx_buf_c", "rx_buf_c", "chrdev", "cdev", "class", "node">>
  /\ Init_of["radio"] = <<"tx_buf", "rx_buf", "rx_out_buf", "rx_in_buf", "tx_buf_r", "rx_buf_r">>
  /\ Init_of["lpl"] = <<"lpl_buf">>
  /\ Init_of["sack"] = <<"ack_buf", "sack_tx_buf", "sack_rx_buf">>
  /\ Init_of["csma"] = <<"csma_buf", "csma_wq">>
  /\ Init_of["unique"] = << >>
  BY DEF Init_of, cc2520_plat_gpio_init, cc2520_plat_spi_init, cc2520_interface_init,
         cc2520_radio_init, cc2520_lpl_init, cc2520_sack_init, cc2520_csma_init,
         cc2520_unique_init

\* The same as sets
LEMMA LayerSets ==
  /\ ToSet(Init_of["gpio"]) = {"pins", "fifop_irq", "sfd_irq"}
  /\ ToSet(Init_of["spi"]) = {"spi_dev", "spi_drv"}
  /\ ToSet(Init_of["interface"]) = {"tx_buf_c", "rx_buf_c", "chrdev", "cdev", "class", "node"}
  /\ ToSet(Init_of["radio"]) = {"tx_buf", "rx_buf", "rx_out_buf", "rx_in_buf", "tx_buf_r", "rx_buf_r"}
  /\ ToSet(Init_of["lpl"]) = {"lpl_buf"}
  /\ ToSet(Init_of["sack"]) = {"ack_buf", "sack_tx_buf", "sack_rx_buf"}
  /\ ToSet(Init_of["csma"]) = {"csma_buf", "csma_wq"}
  /\ ToSet(Init_of["unique"]) = {}
  BY LayerInit DEF ToSet

\* Every layer acquires a sequence of pieces, none of which is the module's own
\* work queue
LEMMA LayerSeq ==
  ASSUME NEW k \in 1..8
  PROVE  /\ Len(Init_of[Layers[k]]) \in Nat
         /\ DOMAIN Init_of[Layers[k]] = 1..Len(Init_of[Layers[k]])
         /\ "wq" \notin ToSet(Init_of[Layers[k]])
         /\ k # 8 => Init_of[Layers[k]] # << >> /\ Len(Init_of[Layers[k]]) > 0
         /\ k = 8 => Init_of[Layers[k]] = << >> /\ Len(Init_of[Layers[k]]) = 0
  <1>1. k = 1 \/ k = 2 \/ k = 3 \/ k = 4 \/ k = 5 \/ k = 6 \/ k = 7 \/ k = 8
    OBVIOUS
  <1>2. CASE k = 1  BY <1>2, LayerOrder, LayerInit DEF ToSet
  <1>3. CASE k = 2  BY <1>3, LayerOrder, LayerInit DEF ToSet
  <1>4. CASE k = 3  BY <1>4, LayerOrder, LayerInit DEF ToSet
  <1>5. CASE k = 4  BY <1>5, LayerOrder, LayerInit DEF ToSet
  <1>6. CASE k = 5  BY <1>6, LayerOrder, LayerInit DEF ToSet
  <1>7. CASE k = 6  BY <1>7, LayerOrder, LayerInit DEF ToSet
  <1>8. CASE k = 7  BY <1>8, LayerOrder, LayerInit DEF ToSet
  <1>9. CASE k = 8  BY <1>9, LayerOrder, LayerInit DEF ToSet
  <1> QED  BY <1>1, <1>2, <1>3, <1>4, <1>5, <1>6, <1>7, <1>8, <1>9

\* What the free functions release of what their layer acquires
LEMMA FreesWhat ==
  /\ \A l \in Freed : Pieces(l) \ Frees(l) \subseteq Left
  /\ \A l \in Freed : Frees(l) \cap Owed = Pieces(l) \cap Owed
  /\ \A l \in Freed \ {"interface"} : "class" \notin Frees(l)
  /\ \A l \in Freed \ {"wq"} : "wq" \notin Frees(l)
  <1>1. Frees("gpio") = {"pins", "fifop_irq", "sfd_irq"}
        /\ Frees("interface") = {"tx_buf_c", "rx_buf_c", "cdev", "class", "node"}
        /\ Frees("radio") = {"tx_buf", "rx_buf", "rx_out_buf", "rx_in_buf", "tx_buf_r", "rx_buf_r"}
        /\ Frees("lpl") = {"lpl_buf"}
        /\ Frees("sack") = {"ack_buf", "sack_tx_buf"}
        /\ Frees("csma") = {"csma_buf", "csma_wq"}
        /\ Frees("wq") = {"wq"}
    BY DEF Frees, cc2520_plat_gpio_free, cc2520_interface_free, cc2520_radio_free,
           cc2520_lpl_free, cc2520_sack_free, cc2520_csma_free, ToSet,
           cc2520_plat_gpio_init, cc2520_interface_init, cc2520_radio_init,
           cc2520_lpl_init, cc2520_csma_init
  <1>2. Frees("spi") = {"spi_drv"} \/ Frees("spi") = {"spi_drv", "spi_dev"}
    BY DEF Frees, cc2520_plat_spi_free
  <1>3. \A l \in Freed \ {"wq"} : Pieces(l) = ToSet(Init_of[l])
    BY DEF Pieces
  <1>4. Pieces("wq") = {"wq"}
    BY DEF Pieces
  <1> QED  BY <1>1, <1>2, <1>3, <1>4, LayerSets DEF Freed, Left, Owed

\* What one more layer adds, and what all of them together hold
LEMMA DoneNext ==
  ASSUME NEW k \in 1..8
  PROVE  Done(k + 1) = Done(k) \cup ToSet(Init_of[Layers[k]])
  <1>1. 1..((k + 1) - 1) = 1..(k - 1) \cup {k}
    OBVIOUS
  <1> QED  BY <1>1 DEF Done

\* A layer that is done has what it acquires among Done
LEMMA DoneHas ==
  ASSUME NEW k \in 1..9, NEW j \in 1..8, j < k
  PROVE  ToSet(Init_of[Layers[j]]) \subseteq Done(k)
  <1>1. j \in 1..(k - 1)
    OBVIOUS
  <1> QED  BY <1>1 DEF Done

\* Where init_module may be
LEMMA PlaceOK ==
  ASSUME TypeOK
  PROVE  /\ layer \in 1..9
         /\ layer = 9 => step = 0
         /\ layer # 9 => layer \in 1..8 /\ step \in 0..Len(Init_of[Layers[layer]])
  <1>1. layer \in 1..9
    BY LayerOrder DEF TypeOK
  <1>2. step \in 0..(IF layer > 8 THEN 0 ELSE Len(Init_of[Layers[layer]]))
    BY LayerOrder DEF TypeOK
  <1>3. CASE layer = 9
    BY <1>2, <1>3
  <1>4. CASE layer # 9
    BY <1>1, <1>2, <1>4
  <1> QED  BY <1>1, <1>3, <1>4

\* Advance goes to the next acquisition or to the next layer, and what has been
\* asked for grows by what was wanted
LEMMA Advances ==
  ASSUME TypeOK, Loading, step > 0, Advance
  PROVE  /\ layer \in 1..8 /\ Wants \in ToSet(Init_of[This])
         /\ \/ layer' = layer /\ step' = step + 1 /\ step' \in 0..Len(Init_of[Layers[layer']])
            \/ layer' = layer + 1 /\ step' = 0 /\ step = Len(Init_of[This])
         /\ Asked' = Asked \cup {Wants}
  <1>1. layer \in 1..8 /\ step \in 1..Len(Init_of[Layers[layer]])
    BY PlaceOK, LayerOrder, LayerSeq DEF Loading, TypeOK
  <1>2. DOMAIN Init_of[Layers[layer]] = 1..Len(Init_of[Layers[layer]])
        /\ Len(Init_of[Layers[layer]]) \in Nat
    BY <1>1, LayerSeq
  <1>3. Wants \in ToSet(Init_of[This])
    BY <1>1, <1>2 DEF Wants, This, ToSet
  <1>4. CASE step = Len(Init_of[This])
    <2>1. layer' = layer + 1 /\ step' = 0
      BY <1>4 DEF Advance
    <2>2. ToSet(Init_of[This]) = { Init_of[Layers[layer]][i] : i \in 1..(step - 1) } \cup {Wants}
      <3>1. 1..Len(Init_of[Layers[layer]]) = 1..(step - 1) \cup {step}
        BY <1>1, <1>2, <1>4 DEF This
      <3> QED  BY <3>1, <1>2 DEF ToSet, Wants, This
    <2>3. Asked' = Done(layer + 1)
      <3>1. 1..(0 - 1) = {}
        OBVIOUS
      <3> QED  BY <3>1, <2>1 DEF Asked, Done
    <2> QED  BY <1>1, <1>3, <1>4, <2>1, <2>2, <2>3, DoneNext DEF Asked, This
  <1>5. CASE step # Len(Init_of[This])
    <2>1. layer' = layer /\ step' = step + 1
      BY <1>5 DEF Advance
    <2>2. 1..(step' - 1) = 1..(step - 1) \cup {step}
      BY <2>1, <1>1, <1>2
    <2>3. Asked' = Asked \cup {Wants}
      BY <2>1, <2>2 DEF Asked, Wants, This, Done
    <2>4. step' \in 0..Len(Init_of[Layers[layer']])
      BY <1>1, <1>2, <1>5, <2>1 DEF This
    <2> QED  BY <1>1, <1>3, <2>1, <2>3, <2>4
  <1> QED  BY <1>4, <1>5

\* A layer that begins has asked for nothing yet
LEMMA Begins ==
  ASSUME TypeOK, Bind
  PROVE  /\ layer \in 1..8 /\ phase = "init" /\ phase' = "init"
         /\ \/ layer' = layer /\ step' = 1 /\ layer # 8
            \/ layer = 8 /\ layer' = 9 /\ step' = 0
         /\ Asked' = Asked
  <1>1. layer \in 1..8 /\ phase = "init" /\ phase' = "init" /\ step = 0
    BY PlaceOK, LayerOrder DEF Bind, Loading
  <1>2. 1..(0 - 1) = {} /\ 1..(1 - 1) = {}
    OBVIOUS
  <1>3. CASE Init_of[This] = << >>
    <2>0. layer = 8
      BY <1>1, <1>3, LayerSeq DEF This
    <2>1. layer = 8 /\ layer' = 9 /\ step' = 0
      BY <1>3, <2>0 DEF Bind
    <2>2. Done(9) = Done(8)
      BY DoneNext, LayerOrder, LayerSets
    <2> QED  BY <1>1, <1>2, <2>1, <2>2 DEF Asked, Done
  <1>4. CASE Init_of[This] # << >>
    <2>1. layer # 8 /\ layer' = layer /\ step' = 1
      BY <1>1, <1>4, LayerSeq DEF Bind, This
    <2> QED  BY <1>1, <1>2, <2>1 DEF Asked, Done
  <1> QED  BY <1>3, <1>4

\* The steps of init_module preserve what a load holds
LEMMA LoadInvBind ==
  ASSUME LifecycleInv, Bind
  PROVE  LoadInv'
  <1>1. TypeOK /\ LoadInv
    BY DEF LifecycleInv
  <1>2. /\ layer \in 1..8 /\ phase = "init" /\ phase' = "init"
        /\ \/ layer' = layer /\ step' = 1 /\ layer # 8
           \/ layer = 8 /\ layer' = 9 /\ step' = 0
        /\ Asked' = Asked /\ step = 0
    BY <1>1, Begins DEF Bind
  <1>3. UNCHANGED <<held, bus, spi_device, loads, refused>>
    BY DEF Bind
  <1>4. layer > 2 => bound' = bound \cup {Layers[layer]}
    <2>1. ASSUME layer > 2 PROVE This \notin {"gpio", "spi"}
      BY <2>1, <1>2, LayerOrder DEF This
    <2> QED  BY <2>1 DEF Bind, This
  <1>5. bound \subseteq bound'
    BY DEF Bind
  <1>6. { Layers[j] : j \in 3..(layer' - 1) } \subseteq bound'
    BY <1>1, <1>2, <1>4, <1>5 DEF LoadInv
  <1>7. step' > 0 /\ layer' > 2 => Layers[layer'] \in bound'
    BY <1>2, <1>4
  <1> QED  BY <1>1, <1>2, <1>3, <1>6, <1>7 DEF LoadInv

\* Acquire: the device is added to an empty bus, and the driver finds that one
LEMMA LoadInvAcquire ==
  ASSUME LifecycleInv, Acquire
  PROVE  LoadInv'
  <1>1. TypeOK /\ LoadInv /\ loads \in Nat
    BY LifecycleAssumption DEF LifecycleInv, TypeOK
  <1>2. phase = "init" /\ phase' = "init" /\ Loading /\ step > 0 /\ Advance
    BY DEF Acquire, Loading
  <1>3. /\ layer \in 1..8 /\ Wants \in ToSet(Init_of[This])
        /\ \/ layer' = layer /\ step' = step + 1 /\ step' \in 0..Len(Init_of[Layers[layer']])
           \/ layer' = layer + 1 /\ step' = 0 /\ step = Len(Init_of[This])
        /\ Asked' = Asked \cup {Wants}
    BY <1>1, <1>2, Advances
  <1>4. /\ held' = held \cup {Wants} /\ UNCHANGED <<bound, loads, refused>>
        /\ bus' = (IF Wants = "spi_dev" THEN {loads} ELSE bus)
        /\ spi_device' = IF Wants = "spi_drv" THEN CHOOSE d \in bus : TRUE ELSE spi_device
    BY DEF Acquire
  <1>5. { Layers[j] : j \in 3..(layer' - 1) } \subseteq bound'
    <2>1. layer' = layer \/ (layer' = layer + 1 /\ (layer > 2 => Layers[layer] \in bound))
      BY <1>1, <1>2, <1>3 DEF LoadInv
    <2> QED  BY <1>1, <1>2, <1>3, <1>4, <2>1 DEF LoadInv
  <1>6. step' > 0 /\ layer' > 2 => Layers[layer'] \in bound'
    BY <1>1, <1>2, <1>3, <1>4 DEF LoadInv
  <1>7. CASE layer = 1
    <2>1. ~(layer' > 2) /\ ~(layer' = 2 /\ step' = 2)
      BY <1>3, <1>7
    <2> QED  BY <1>1, <1>2, <1>3, <1>4, <1>5, <1>6, <2>1 DEF LoadInv
  <1>8. CASE layer = 2
    <2>1. Len(Init_of[This]) = 2 /\ Init_of[This][1] = "spi_dev" /\ Init_of[This][2] = "spi_drv"
      BY <1>8, LayerOrder, LayerInit DEF This
    <2>2. step \in 0..2
      BY <1>1, <1>8, <2>1, PlaceOK DEF This
    <2>3. CASE step = 1
      <3>1. bus' = {loads} /\ layer' = 2 /\ step' = 2
        BY <1>3, <1>4, <1>8, <2>1, <2>3 DEF Wants
      <3> QED  BY <1>1, <1>2, <1>3, <1>4, <1>5, <1>6, <3>1 DEF LoadInv
    <2>4. CASE step = 2
      <3>1. bus = {loads} /\ Wants = "spi_drv"
        BY <1>1, <1>2, <1>8, <2>1, <2>4 DEF LoadInv, Wants
      <3>2. (CHOOSE d \in {loads} : TRUE) = loads
        OBVIOUS
      <3>3. spi_device' = loads /\ bus' = {loads}
        BY <1>4, <3>1, <3>2
      <3> QED  BY <1>1, <1>2, <1>3, <1>4, <1>5, <1>6, <3>3 DEF LoadInv
    <2> QED  BY <1>2, <2>2, <2>3, <2>4
  <1>9. CASE layer > 2
    <2>1. Wants # "spi_dev" /\ Wants # "spi_drv"
      <3>1. layer = 3 \/ layer = 4 \/ layer = 5 \/ layer = 6 \/ layer = 7 \/ layer = 8
        BY <1>3, <1>9
      <3> QED  BY <1>3, <3>1, LayerOrder, LayerSets DEF This
    <2>2. bus' = bus /\ spi_device' = spi_device
      BY <1>4, <2>1
    <2>3. layer' > 2
      BY <1>3, <1>9
    <2> QED  BY <1>1, <1>2, <1>3, <1>4, <1>5, <1>6, <1>9, <2>2, <2>3 DEF LoadInv
  <1> QED  BY <1>3, <1>7, <1>8, <1>9

\* A refusal that init_module does not notice
LEMMA LoadInvUnnoticed ==
  ASSUME LifecycleInv, RefuseUnnoticed
  PROVE  LoadInv'
  <1>1. TypeOK /\ LoadInv
    BY DEF LifecycleInv
  <1>2. phase = "init" /\ phase' = "init" /\ Loading /\ step > 0 /\ Advance
    BY DEF RefuseUnnoticed, Loading
  <1>3. /\ layer \in 1..8 /\ Wants \in ToSet(Init_of[This])
        /\ \/ layer' = layer /\ step' = step + 1 /\ step' \in 0..Len(Init_of[Layers[layer']])
           \/ layer' = layer + 1 /\ step' = 0 /\ step = Len(Init_of[This])
        /\ Asked' = Asked \cup {Wants}
    BY <1>1, <1>2, Advances
  <1>4. refused' = refused \cup {Wants} /\ UNCHANGED <<held, bound, bus, spi_device, loads>>
    BY DEF RefuseUnnoticed, LifecycleInv, LeftInv, Vacant, still_on_bus
  <1>5. layer = 3 /\ Wants \in {"class", "node"}
    <2>1. Wants \in {"class", "node", "wq"}
      BY DEF RefuseUnnoticed, Unnoticed
    <2>2. layer = 1 \/ layer = 2 \/ layer = 3 \/ layer = 4 \/ layer = 5 \/ layer = 6 \/ layer = 7 \/ layer = 8
      BY <1>3
    <2>3. CASE layer \in {1, 2, 4}
      BY <1>3, <2>1, <2>3, LayerOrder, LayerSets DEF This
    <2>4. CASE layer \in {5, 6, 7, 8}
      BY <1>3, <2>1, <2>4, LayerOrder, LayerSets DEF This
    <2>5. CASE layer = 3
      BY <1>3, <2>1, <2>5, LayerOrder, LayerSets DEF This
    <2> QED  BY <2>2, <2>3, <2>4, <2>5
  <1>6. { Layers[j] : j \in 3..(layer' - 1) } \subseteq bound'
    BY <1>1, <1>2, <1>3, <1>4, <1>5 DEF LoadInv
  <1>7. step' > 0 /\ layer' > 2 => Layers[layer'] \in bound'
    BY <1>1, <1>2, <1>3, <1>4 DEF LoadInv
  <1>8. layer' > 2
    BY <1>3, <1>5
  <1> QED  BY <1>1, <1>2, <1>3, <1>4, <1>5, <1>6, <1>7, <1>8 DEF LoadInv

\* Every step preserves what a load holds
LEMMA LoadInvNext ==
  ASSUME LifecycleInv, [Next]_vars
  PROVE  LoadInv'
  <1>1. TypeOK /\ LoadInv /\ FreeInv
    BY DEF LifecycleInv
  <1>2. CASE init_module
    <2>1. Asked' = {}
      <3>1. 1..(1 - 1) = {} /\ 1..(0 - 1) = {}
        OBVIOUS
      <3>2. layer' = 1 /\ step' = 0
        BY <1>2 DEF init_module
      <3> QED  BY <3>1, <3>2 DEF Asked, Done
    <2>2. 3..(layer' - 1) = {}
      BY <1>2 DEF init_module
    <2>3. loads' > 0
      BY <1>1, <1>2, LifecycleAssumption DEF init_module, TypeOK
    <2> QED  BY <1>2, <2>1, <2>2, <2>3 DEF init_module, LoadInv
  <1>3. CASE create_workqueue
    <2>1. layer = 9 /\ step = 0 /\ phase = "init" /\ phase' = "ready"
      BY <1>1, <1>3, PlaceOK, LayerOrder DEF create_workqueue
    <2>2. Asked = Done(9)
      <3>1. 1..(0 - 1) = {}
        OBVIOUS
      <3> QED  BY <2>1, <3>1 DEF Asked
    <2>3. held \cup refused \cup {"wq"} = held' \cup refused' /\ UNCHANGED <<bound, bus, spi_device, loads>>
      BY <1>3 DEF create_workqueue
    <2>4. refused' \subseteq Unnoticed
      BY <1>1, <1>3, <2>1 DEF create_workqueue, LoadInv, Unnoticed
    <2> QED  BY <1>1, <2>1, <2>2, <2>3, <2>4 DEF LoadInv
  <1>4. CASE UNCHANGED loadVars
    <2>1. UNCHANGED <<phase, layer, step, held, bound, bus, spi_device, loads, refused>>
      BY <1>4 DEF loadVars
    <2>2. Asked' = Asked /\ Done(9)' = Done(9)
      BY <2>1 DEF Asked, Done
    <2> QED  BY <1>1, <2>1, <2>2 DEF LoadInv
  <1>5. CASE Refuse \/ cleanup_module \/ Free \/ Gone
    BY <1>5 DEF Refuse, cleanup_module, Free, Gone, LoadInv
  <1>6. CASE Open \/ Close \/ Fifop \/ Expire
             \/ (\E op \in {"write", "read", "on", "off"} : Call(op))
             \/ (\E c \in {"process", "reception"} : Step(c))
             \/ UNCHANGED vars
    BY <1>4, <1>6 DEF Open, Close, Fifop, Expire, Call, Step, vars
  <1> QED
    BY <1>2, <1>3, <1>5, <1>6, LoadInvBind, LoadInvAcquire, LoadInvUnnoticed DEF Next

\* The first of the free functions that remain, and the others
LEMMA TodoTail ==
  ASSUME FreeInv, todo # << >>
  PROVE  /\ Head(todo) \in Freed /\ Tail(todo) \in Seq(Freed)
         /\ \A i, j \in DOMAIN Tail(todo) : Tail(todo)[i] = Tail(todo)[j] => i = j
         /\ ToSet(todo) = {Head(todo)} \cup ToSet(Tail(todo))
         /\ Head(todo) \notin ToSet(Tail(todo))
         /\ Pending = Pieces(Head(todo)) \cup UNION { Pieces(Tail(todo)[i]) : i \in DOMAIN Tail(todo) }
  <1>1. todo \in Seq(Freed) /\ DOMAIN todo = 1..Len(todo) /\ Len(todo) \in Nat /\ Len(todo) > 0
    BY DEF FreeInv
  <1>2. /\ Head(todo) = todo[1] /\ Tail(todo) \in Seq(Freed)
        /\ DOMAIN Tail(todo) = 1..(Len(todo) - 1)
        /\ \A i \in 1..(Len(todo) - 1) : Tail(todo)[i] = todo[i + 1]
    BY <1>1
  <1>3. \A k \in 1..Len(todo) : k = 1 \/ (k - 1 \in 1..(Len(todo) - 1) /\ todo[k] = Tail(todo)[k - 1])
    BY <1>1, <1>2
  <1>4. \A i \in 1..(Len(todo) - 1) : i + 1 \in 1..Len(todo) /\ i + 1 # 1
    BY <1>1
  <1>5. \A i, j \in 1..Len(todo) : todo[i] = todo[j] => i = j
    BY <1>1 DEF FreeInv
  <1>6. Head(todo) \in Freed
    BY <1>1, <1>2
  <1>7. \A i, j \in DOMAIN Tail(todo) : Tail(todo)[i] = Tail(todo)[j] => i = j
    <2>1. TAKE i, j \in DOMAIN Tail(todo)
    <2>2. Tail(todo)[i] = todo[i + 1] /\ Tail(todo)[j] = todo[j + 1]
          /\ i + 1 \in 1..Len(todo) /\ j + 1 \in 1..Len(todo) /\ i \in Int /\ j \in Int
      BY <1>1, <1>2, <1>4
    <2>3. todo[i + 1] = todo[j + 1] => i + 1 = j + 1
      BY <2>2, <1>5
    <2> QED  BY <2>2, <2>3
  <1>8. ToSet(todo) = {Head(todo)} \cup ToSet(Tail(todo)) /\ Head(todo) \notin ToSet(Tail(todo))
    <2>1. ToSet(todo) \subseteq {Head(todo)} \cup ToSet(Tail(todo))
      <3>1. SUFFICES ASSUME NEW k \in 1..Len(todo), k # 1
                     PROVE  todo[k] \in ToSet(Tail(todo))
        BY <1>1, <1>2 DEF ToSet
      <3>2. PICK i : i = k - 1
        OBVIOUS
      <3>3. i \in DOMAIN Tail(todo) /\ todo[k] = Tail(todo)[i]
        BY <1>2, <1>3, <3>1, <3>2
      <3> QED  BY <3>3 DEF ToSet
    <2>2. ToSet(Tail(todo)) \subseteq ToSet(todo)
      BY <1>1, <1>2, <1>4 DEF ToSet
    <2>3. Head(todo) \in ToSet(todo)
      BY <1>1, <1>2 DEF ToSet
    <2>4. ASSUME Head(todo) \in ToSet(Tail(todo)) PROVE FALSE
      <3>1. PICK i \in 1..(Len(todo) - 1) : Tail(todo)[i] = Head(todo)
        BY <1>2, <2>4 DEF ToSet
      <3>2. todo[i + 1] = todo[1] /\ i + 1 \in 1..Len(todo) /\ 1 \in 1..Len(todo) /\ i + 1 # 1
        BY <1>1, <1>2, <1>4, <3>1
      <3> QED  BY <1>5, <3>2
    <2> QED  BY <2>1, <2>2, <2>3, <2>4
  <1>9. Pending = UNION { Pieces(l) : l \in ToSet(todo) }
    BY DEF Pending, ToSet
  <1>10. UNION { Pieces(Tail(todo)[i]) : i \in DOMAIN Tail(todo) }
           = UNION { Pieces(l) : l \in ToSet(Tail(todo)) }
    BY DEF ToSet
  <1> QED  BY <1>2, <1>6, <1>7, <1>8, <1>9, <1>10

\* What init_module frees on an error: the layers before this one, backwards
\* (Refuse sets todo to it); Undoes says what a run through such a list undoes.
UndoOf(k) == Reverse(SubSeq(Layers, 1, k - 1))

Undoes(u, k) ==
  /\ u \in Seq(Freed)
  /\ \A i, j \in DOMAIN u : u[i] = u[j] => i = j
  /\ ToSet(u) = { Layers[j] : j \in 1..(k - 1) }
  /\ UNION { Pieces(u[i]) : i \in DOMAIN u } = Done(k)
  /\ "wq" \notin ToSet(u)
  /\ "interface" \in ToSet(u) => k > 3

LEMMA UndoList ==
  ASSUME NEW k \in 1..7
  PROVE  Undoes(UndoOf(k), k)
  <1>0. PICK u : u = UndoOf(k)
    OBVIOUS
  <1>1. /\ \A i \in 1..7 : Layers[i] \in Freed \ {"wq"}
        /\ \A i, j \in 1..7 : Layers[i] = Layers[j] => i = j
        /\ \A i \in 1..7 : Layers[i] = "interface" => i = 3
    <2>1. \A i \in 1..7 : i = 1 \/ i = 2 \/ i = 3 \/ i = 4 \/ i = 5 \/ i = 6 \/ i = 7
      OBVIOUS
    <2>2. \A i \in 1..7 : Layers[i] \in Freed \ {"wq"}
      BY <2>1, LayerOrder DEF Freed
    <2>3. \A i, j \in 1..7 : Layers[i] = Layers[j] => i = j
      BY <2>1, LayerOrder
    <2>4. \A i \in 1..7 : Layers[i] = "interface" => i = 3
      BY <2>1, LayerOrder
    <2> QED  BY <2>2, <2>3, <2>4
  <1>2. Layers \in Seq({Layers[i] : i \in 1..8})
    <2>1. DOMAIN Layers = 1..8 /\ Len(Layers) = 8 /\ Layers = [i \in 1..8 |-> Layers[i]]
      BY DEF Layers
    <2> QED  BY <2>1
  <1>3. /\ Len(SubSeq(Layers, 1, k - 1)) = k - 1
        /\ \A i \in 1..(k - 1) : SubSeq(Layers, 1, k - 1)[i] = Layers[i]
    <2>1. PICK n : n = k - 1
      OBVIOUS
    <2>2. n \in 0..6 /\ Len(Layers) = 8
      BY <2>1, LayerOrder
    <2>3. Len(SubSeq(Layers, 1, n)) = n /\ \A i \in 1..n : SubSeq(Layers, 1, n)[i] = Layers[i]
      BY <1>2, <2>2
    <2> QED  BY <2>1, <2>3
  <1>4. u = [i \in 1..(k - 1) |-> Layers[k - i]]
    <2>1. \A i \in 1..(k - 1) : ((k - 1) - i) + 1 = k - i /\ k - i \in 1..(k - 1)
      OBVIOUS
    <2> QED  BY <1>0, <1>3, <2>1 DEF Reverse, UndoOf
  <1>5. DOMAIN u = 1..(k - 1) /\ \A i \in 1..(k - 1) : u[i] = Layers[k - i] /\ k - i \in 1..(k - 1) /\ k - i \in 1..7
    BY <1>4
  <1>6. u \in Seq(Freed)
    <2>1. \A i \in 1..(k - 1) : u[i] \in Freed
      BY <1>1, <1>5
    <2>2. k - 1 \in Nat /\ u = [i \in 1..(k - 1) |-> u[i]]
      BY <1>4
    <2> QED  BY <2>1, <2>2
  <1>7. \A i, j \in DOMAIN u : u[i] = u[j] => i = j
    <2>1. TAKE i, j \in DOMAIN u
    <2>2. i \in 1..(k - 1) /\ j \in 1..(k - 1)
      BY <1>5
    <2>4. u[i] = Layers[k - i] /\ u[j] = Layers[k - j] /\ k - i \in 1..7 /\ k - j \in 1..7
      BY <1>5, <2>2
    <2>5. \A a, b \in 1..7 : Layers[a] = Layers[b] => a = b
      BY <1>1
    <2>3. u[i] = u[j] => k - i = k - j
      BY <2>4, <2>5
    <2> QED  BY <2>2, <2>3
  <1>8. ToSet(u) = { Layers[j] : j \in 1..(k - 1) }
    <2>1. \A j \in 1..(k - 1) : k - j \in 1..(k - 1) /\ k - (k - j) = j
      OBVIOUS
    <2>2. \A j \in 1..(k - 1) : Layers[j] = u[k - j]
      BY <1>5, <2>1
    <2> QED  BY <1>5, <2>1, <2>2 DEF ToSet
  <1>9. UNION { Pieces(u[i]) : i \in DOMAIN u } = Done(k)
    <2>1. UNION { Pieces(u[i]) : i \in DOMAIN u } = UNION { Pieces(l) : l \in ToSet(u) }
      BY DEF ToSet
    <2>2. \A j \in 1..(k - 1) : Pieces(Layers[j]) = ToSet(Init_of[Layers[j]])
      BY <1>1 DEF Pieces
    <2> QED  BY <1>8, <2>1, <2>2 DEF Done
  <1>10. "wq" \notin ToSet(u)
    <2>1. \A j \in 1..(k - 1) : j \in 1..7
      OBVIOUS
    <2> QED  BY <1>1, <1>8, <2>1
  <1>11. "interface" \in ToSet(u) => k > 3
    <2>1. \A j \in 1..(k - 1) : j \in 1..7 /\ (j = 3 => k > 3)
      OBVIOUS
    <2> QED  BY <1>1, <1>8, <2>1
  <1>12. Undoes(u, k)
    BY <1>6, <1>7, <1>8, <1>9, <1>10, <1>11 DEF Undoes
  <1> QED  BY <1>0, <1>12

\* A layer that fails leaves of what it has acquired no more than Left
LEMMA ErrorLeaves ==
  ASSUME LifecycleInv, Refuse
  PROVE  /\ layer \in 1..7
         /\ held \ OnError(This) \subseteq Done(layer) \cup Left
         /\ layer # 3 => "class" \notin OnError(This)
  <1>1. TypeOK /\ LoadInv /\ phase = "init"
    BY DEF LifecycleInv, Refuse, Loading
  <1>2. layer \in 1..8 /\ step \in 1..Len(Init_of[Layers[layer]])
    BY <1>1, PlaceOK, LayerOrder, LayerSeq DEF Refuse, Loading
  <1>3. layer \in 1..7
    BY <1>2, LayerSeq
  <1>4. /\ Wants = Init_of[Layers[layer]][step] /\ Wants \notin {"class", "node", "wq"}
        /\ This = Layers[layer]
    BY DEF Refuse, Wants, This, Unnoticed
  <1>5. PICK F : F = { Init_of[Layers[layer]][i] : i \in 1..(step - 1) }
    OBVIOUS
  <1>6. held \subseteq Done(layer) \cup F
    BY <1>1, <1>5 DEF LoadInv, Asked
  <1>7. F \subseteq ToSet(Init_of[Layers[layer]])
    BY <1>2, <1>5, LayerSeq DEF ToSet
  <1>8. SUFFICES F \ OnError(This) \subseteq Left /\ (layer # 3 => "class" \notin OnError(This))
    BY <1>3, <1>6
  <1>9. CASE layer = 2
    <2>1. OnError(This) = {"spi_drv"}
      BY <1>4, <1>9, LayerOrder DEF OnError, spi_init_error
    <2> QED  BY <1>7, <1>9, <2>1, LayerOrder, LayerSets DEF Left
  <1>10. CASE layer = 3
    <2>1. OnError(This) = {"tx_buf_c", "rx_buf_c"}
      BY <1>4, <1>10, LayerOrder DEF OnError, interface_init_error
    <2>2. Init_of[Layers[layer]] = <<"tx_buf_c", "rx_buf_c", "chrdev", "cdev", "class", "node">>
      BY <1>10, LayerOrder, LayerInit
    <2>3. step \in 1..6
      BY <1>2, <2>2
    <2>4. step # 5 /\ step # 6
      BY <1>4, <2>2
    <2>5. step - 1 \in 0..3
      BY <2>3, <2>4
    <2>6. F \subseteq {"tx_buf_c", "rx_buf_c", "chrdev"}
      <3>1. \A i \in 1..(step - 1) : i = 1 \/ i = 2 \/ i = 3
        BY <2>5
      <3> QED  BY <1>5, <2>2, <3>1
    <2> QED  BY <1>10, <2>1, <2>6 DEF Left
  <1>11. CASE layer \in {1, 4, 5, 6, 7}
    <2>1. This \in Freed \ {"spi", "interface", "wq"}
      BY <1>4, <1>11, LayerOrder DEF Freed
    <2>2. OnError(This) = Frees(This) /\ Pieces(This) = ToSet(Init_of[This])
      BY <2>1 DEF OnError, Pieces
    <2>3. Pieces(This) \ Frees(This) \subseteq Left /\ "class" \notin Frees(This)
      BY <2>1, FreesWhat
    <2> QED  BY <1>4, <1>7, <2>2, <2>3
  <1> QED  BY <1>3, <1>9, <1>10, <1>11

\* Every step preserves what the free functions rely on
LEMMA FreeInvNext ==
  ASSUME LifecycleInv, [Next]_vars
  PROVE  FreeInv'
  <1>1. TypeOK /\ LoadInv /\ FreeInv
    BY DEF LifecycleInv
  <1>2. ASSUME phase' \in {"init", "ready"}, todo' = << >>
        PROVE  FreeInv'
    BY <1>2 DEF FreeInv, ToSet
  <1>3. CASE init_module \/ Bind \/ Acquire \/ RefuseUnnoticed \/ create_workqueue
    <2>1. phase' \in {"init", "ready"} /\ (todo' = << >> \/ (todo' = todo /\ phase = "init"))
      BY <1>3 DEF init_module, Bind, Acquire, RefuseUnnoticed, create_workqueue, Loading
    <2> QED  BY <1>1, <1>2, <2>1 DEF FreeInv
  <1>4. CASE Refuse
    <2>1. /\ layer \in 1..7
          /\ held \ OnError(This) \subseteq Done(layer) \cup Left
          /\ layer # 3 => "class" \notin OnError(This)
      BY <1>4, ErrorLeaves
    <2>2. /\ phase = "init" /\ phase' = "undo" /\ held' = held \ OnError(This)
          /\ todo' = Reverse(SubSeq(Layers, 1, layer - 1))
      BY <1>4 DEF Refuse, Loading
    <2>3. refused' = refused \cup {Wants} /\ Wants \notin Unnoticed
      BY <1>4 DEF Refuse, Vacant, still_on_bus, LifecycleInv, LeftInv
    <2>4. /\ todo' \in Seq(Freed)
          /\ \A i, j \in DOMAIN todo' : todo'[i] = todo'[j] => i = j
          /\ UNION { Pieces(todo'[i]) : i \in DOMAIN todo' } = Done(layer)
          /\ "wq" \notin ToSet(todo')
          /\ "interface" \in ToSet(todo') => layer > 3
      <3>1. PICK k \in 1..7 : k = layer
        BY <2>1
      <3>2. PICK u : u = todo'
        OBVIOUS
      <3>3. u = UndoOf(k)
        BY <2>2, <3>1, <3>2 DEF UndoOf
      <3>4. Undoes(UndoOf(k), k)
        BY UndoList
      <3>5. Undoes(u, k)
        BY <3>3, <3>4
      <3> QED  BY <3>1, <3>2, <3>5 DEF Undoes
    <2>5. Pending' = Done(layer)
      BY <2>4 DEF Pending
    <2>6. layer > 3 => "class" \in held' \cup refused'
      <3>1. ASSUME layer > 3 PROVE "class" \in Asked
        <4>1. ToSet(Init_of[Layers[3]]) \subseteq Done(layer)
          BY <2>1, <3>1, DoneHas
        <4> QED  BY <4>1, LayerOrder, LayerSets DEF Asked
      <3> QED  BY <1>1, <2>1, <2>2, <2>3, <3>1 DEF LoadInv
    <2>7. Left \cap Owed = {}
      BY DEF Left, Owed
    <2> QED  BY <2>1, <2>2, <2>3, <2>4, <2>5, <2>6, <2>7 DEF FreeInv
  <1>5. CASE cleanup_module
    <2>1. /\ phase = "ready" /\ phase' = "cleanup" /\ UNCHANGED <<held, refused>>
          /\ todo' = <<"wq", "interface", "gpio", "spi">>
      BY <1>5 DEF cleanup_module
    <2>2. todo' \in Seq(Freed)
      BY <2>1 DEF Freed
    <2>3. DOMAIN todo' = 1..4 /\ todo'[1] = "wq" /\ todo'[2] = "interface"
          /\ todo'[3] = "gpio" /\ todo'[4] = "spi"
      BY <2>1
    <2>4. \A i, j \in DOMAIN todo' : todo'[i] = todo'[j] => i = j
      <3>1. \A i \in 1..4 : i = 1 \/ i = 2 \/ i = 3 \/ i = 4
        OBVIOUS
      <3> QED  BY <2>3, <3>1
    <2>5. Owed \subseteq Pending'
      <3>1. Pieces("wq") \cup Pieces("interface") \cup Pieces("gpio") \cup Pieces("spi") \subseteq Pending'
        BY <2>3 DEF Pending
      <3>2. Owed \subseteq Pieces("wq") \cup Pieces("interface") \cup Pieces("gpio") \cup Pieces("spi")
        BY LayerSets DEF Pieces, Owed
      <3> QED  BY <3>1, <3>2
    <2>6. "wq" \in held \cup refused /\ "class" \in held \cup refused
      <3>1. ToSet(Init_of[Layers[3]]) \subseteq Done(9)
        BY DoneHas
      <3> QED  BY <1>1, <2>1, <3>1, LayerOrder, LayerSets DEF LoadInv
    <2>7. refused \subseteq Unnoticed
      BY <1>1, <2>1 DEF LoadInv
    <2> QED  BY <2>1, <2>2, <2>4, <2>5, <2>6, <2>7 DEF FreeInv
  <1>6. CASE Free
    <2>1. /\ phase \in {"undo", "cleanup"} /\ phase' = phase /\ todo # << >>
          /\ held' = held \ Frees(Head(todo)) /\ refused' = refused /\ todo' = Tail(todo)
      BY <1>6 DEF Free
    <2>2. PICK l : l = Head(todo)
      OBVIOUS
    <2>3. /\ l \in Freed /\ todo' \in Seq(Freed)
          /\ \A i, j \in DOMAIN todo' : todo'[i] = todo'[j] => i = j
          /\ ToSet(todo) = {l} \cup ToSet(todo') /\ l \notin ToSet(todo')
          /\ Pending = Pieces(l) \cup Pending'
      BY <1>1, <2>1, <2>2, TodoTail DEF Pending
    <2>4. PICK F : F = Frees(l)
      OBVIOUS
    <2>5. /\ Pieces(l) \ F \subseteq Left /\ F \cap Owed = Pieces(l) \cap Owed
          /\ (l # "interface" => "class" \notin F) /\ (l # "wq" => "wq" \notin F)
      BY <2>3, <2>4, FreesWhat
    <2>6. held' = held \ F
      BY <2>1, <2>2, <2>4
    <2>7. held' \cap Owed \subseteq Pending'
      BY <1>1, <2>1, <2>3, <2>5, <2>6 DEF FreeInv
    <2>8. refused' \subseteq Unnoticed \/ held' \subseteq Pending' \cup Left
      BY <1>1, <2>1, <2>3, <2>5, <2>6 DEF FreeInv
    <2>9. /\ "wq" \in ToSet(todo') => "wq" \in held' \cup refused'
          /\ "interface" \in ToSet(todo') => "class" \in held' \cup refused'
      BY <1>1, <2>1, <2>3, <2>5, <2>6 DEF FreeInv
    <2> QED  BY <1>1, <2>1, <2>3, <2>7, <2>8, <2>9 DEF FreeInv
  <1>7. CASE Gone
    <2>1. /\ phase \in {"undo", "cleanup"} /\ phase' = "absent" /\ todo = << >>
          /\ UNCHANGED <<todo, held, refused>>
      BY <1>7 DEF Gone
    <2>2. Pending' = Pending /\ ToSet(todo)' = ToSet(todo)
      BY <2>1 DEF Pending, ToSet
    <2> QED  BY <1>1, <2>1, <2>2 DEF FreeInv
  <1>8. CASE UNCHANGED loadVars
    <2>1. UNCHANGED <<phase, todo, held, refused>>
      BY <1>8 DEF loadVars
    <2>2. Pending' = Pending /\ ToSet(todo)' = ToSet(todo)
      BY <2>1 DEF Pending, ToSet
    <2> QED  BY <1>1, <2>1, <2>2 DEF FreeInv
  <1>9. CASE Open \/ Close \/ Fifop \/ Expire
             \/ (\E op \in {"write", "read", "on", "off"} : Call(op))
             \/ (\E c \in {"process", "reception"} : Step(c))
             \/ UNCHANGED vars
    BY <1>8, <1>9 DEF Open, Close, Fifop, Expire, Call, Step, vars
  <1> QED  BY <1>3, <1>4, <1>5, <1>6, <1>7, <1>9 DEF Next

-----------------------------------------------------------------------------
(* The calls into the driver.                                              *)

Places == DOMAIN Needs \ {"gone"}

\* An operation passes places of the driver
LEMMA OperationPath ==
  ASSUME NEW op \in {"write", "read", "on", "off", "fifop"}
  PROVE  /\ Path[op] \in Seq(DOMAIN Needs) /\ Path[op] # << >>
         /\ "gone" \notin ToSet(Path[op])
  <1>1. {"interface_write", "unique_tx", "lpl_tx", "csma_tx", "sack_tx", "radio_tx",
         "interface_read", "radio_on", "radio_off", "gone",
         "radio_rx", "sack_rx", "csma_rx", "lpl_rx", "unique_rx", "interface_rx"} \subseteq DOMAIN Needs
    BY DEF Needs
  <1>2. CASE op = "write"
    <2>1. Path[op] = <<"interface_write", "unique_tx", "lpl_tx", "csma_tx", "sack_tx", "radio_tx">>
      BY <1>2 DEF Path
    <2> QED  BY <1>1, <2>1 DEF ToSet
  <1>3. CASE op = "fifop"
    <2>1. Path[op] = <<"radio_rx", "sack_rx", "csma_rx", "lpl_rx", "unique_rx", "interface_rx">>
      BY <1>3 DEF Path
    <2> QED  BY <1>1, <2>1 DEF ToSet
  <1>4. CASE op \in {"read", "on", "off"}
    <2>1. PICK x \in {"interface_read", "radio_on", "radio_off"} : Path[op] = <<x>>
      BY <1>4 DEF Path
    <2> QED  BY <1>1, <2>1 DEF ToSet
  <1> QED  BY <1>2, <1>3, <1>4

\* What the places need: buffers, layers that are bound and the SPI device
LEMMA PlaceNeeds ==
  ASSUME NEW at \in Places
  PROVE  Needs[at] \subseteq (Done(9) \ Unnoticed) \cup { Layers[j] : j \in 3..8 } \cup {"spi_device"}
  <1>1. {"tx_buf_c", "rx_buf_c", "tx_buf", "rx_buf", "rx_out_buf", "rx_in_buf", "tx_buf_r",
         "rx_buf_r", "lpl_buf", "ack_buf", "sack_tx_buf", "sack_rx_buf", "csma_buf", "csma_wq"}
        \subseteq Done(9) \ Unnoticed
    <2>1. \A j \in 1..8 : ToSet(Init_of[Layers[j]]) \subseteq Done(9)
      BY DoneHas
    <2>2. {"tx_buf_c", "rx_buf_c"} \subseteq Done(9)
      BY <2>1, LayerOrder, LayerSets
    <2>3. {"tx_buf", "rx_buf", "rx_out_buf", "rx_in_buf", "tx_buf_r", "rx_buf_r"} \subseteq Done(9)
      BY <2>1, LayerOrder, LayerSets
    <2>4. {"lpl_buf", "ack_buf", "sack_tx_buf", "sack_rx_buf"} \subseteq Done(9)
      BY <2>1, LayerOrder, LayerSets
    <2>5. {"csma_buf", "csma_wq"} \subseteq Done(9)
      BY <2>1, LayerOrder, LayerSets
    <2> QED  BY <2>2, <2>3, <2>4, <2>5 DEF Unnoticed
  <1>2. {"interface", "radio", "lpl", "sack", "csma", "unique"} \subseteq { Layers[j] : j \in 3..8 }
    BY LayerOrder
  <1>3. Needs[at] \subseteq
          {"tx_buf_c", "rx_buf_c", "tx_buf", "rx_buf", "rx_out_buf", "rx_in_buf", "tx_buf_r",
           "rx_buf_r", "lpl_buf", "ack_buf", "sack_tx_buf", "sack_rx_buf", "csma_buf", "csma_wq"}
          \cup {"interface", "radio", "lpl", "sack", "csma", "unique"} \cup {"spi_device"}
    <2>1. at \in {"interface_write", "interface_read", "interface_rx", "unique_tx", "unique_rx"}
          \/ at \in {"lpl_tx", "lpl_rx", "csma_tx", "csma_rx"}
          \/ at \in {"sack_tx", "sack_rx", "radio_tx"}
          \/ at \in {"radio_on", "radio_off", "radio_rx"}
      BY DEF Needs, Places
    <2>2. /\ Needs["interface_write"] = {"tx_buf_c"} /\ Needs["interface_read"] = {"rx_buf_c"}
          /\ Needs["interface_rx"] = {"interface", "rx_buf_c"}
          /\ Needs["unique_tx"] = {"unique"} /\ Needs["unique_rx"] = {"unique"}
      BY DEF Needs
    <2>3. /\ Needs["lpl_tx"] = {"lpl", "lpl_buf"} /\ Needs["lpl_rx"] = {"lpl"}
          /\ Needs["csma_tx"] = {"csma", "csma_buf", "csma_wq"} /\ Needs["csma_rx"] = {"csma"}
      BY DEF Needs
    <2>4. /\ Needs["sack_tx"] = {"sack", "sack_tx_buf"}
          /\ Needs["sack_rx"] = {"sack", "sack_rx_buf", "ack_buf", "radio", "tx_buf_r"}
          /\ Needs["radio_tx"] = {"radio", "tx_buf", "rx_buf", "tx_buf_r", "spi_device"}
      BY DEF Needs
    <2>5. /\ Needs["radio_on"] = {"tx_buf", "rx_buf", "spi_device"}
          /\ Needs["radio_off"] = {"tx_buf", "rx_buf", "spi_device"}
          /\ Needs["radio_rx"] = {"rx_out_buf", "rx_in_buf", "rx_buf_r", "spi_device"}
      BY DEF Needs
    <2> QED  BY <2>1, <2>2, <2>3, <2>4, <2>5
  <1> QED  BY <1>1, <1>2, <1>3

\* While the module is loaded nothing is missing at any of them
LEMMA ReadyHasAll ==
  ASSUME LifecycleInv, phase = "ready", NEW at \in Places
  PROVE  Needs[at] \subseteq There
  <1>1. /\ loads > 0 /\ refused \subseteq Unnoticed
        /\ Done(9) \cup {"wq"} \subseteq held \cup refused
        /\ { Layers[j] : j \in 3..8 } \subseteq bound
        /\ spi_device = loads /\ loads \in Int
    BY LifecycleAssumption DEF LifecycleInv, LoadInv, TypeOK
  <1>2. There = held \cup bound \cup {"spi_device"}
    BY <1>1 DEF There
  <1>3. Done(9) \ Unnoticed \subseteq held
    BY <1>1
  <1> QED  BY <1>1, <1>2, <1>3, PlaceNeeds

\* A reception or a process that goes on has a place to go to
LEMMA PathTail ==
  ASSUME LifecycleInv, NEW c \in Users, path[c] # << >>
  PROVE  /\ Head(path[c]) \in DOMAIN Needs /\ Tail(path[c]) \in Seq(DOMAIN Needs)
         /\ Head(path[c]) \in ToSet(path[c])
         /\ ToSet(Tail(path[c])) \subseteq ToSet(path[c])
  <1>1. PICK s : s = path[c]
    OBVIOUS
  <1>2. s \in Seq(DOMAIN Needs) /\ s # << >>
    BY <1>1 DEF LifecycleInv, UseInv
  <1>3. Len(s) \in Nat /\ Len(s) > 0 /\ DOMAIN s = 1..Len(s)
    BY <1>2
  <1>4. Head(s) = s[1] /\ 1 \in DOMAIN s /\ s[1] \in DOMAIN Needs
    BY <1>2, <1>3
  <1>5. /\ Tail(s) \in Seq(DOMAIN Needs) /\ DOMAIN Tail(s) = 1..(Len(s) - 1)
        /\ \A i \in 1..(Len(s) - 1) : Tail(s)[i] = s[i + 1] /\ i + 1 \in DOMAIN s
    BY <1>2, <1>3
  <1> QED  BY <1>1, <1>4, <1>5 DEF ToSet

\* Every step preserves what a careful user relies on
LEMMA UseInvNext ==
  ASSUME LifecycleInv, [Next]_vars
  PROVE  UseInv'
  <1>1. TypeOK /\ UseInv
    BY DEF LifecycleInv
  <1>2. CASE init_module
    <2>1. /\ phase = "absent" /\ phase' = "init" /\ careless' = Inherited
          /\ UNCHANGED <<chip, open, path, lpl_timer>>
      BY <1>2 DEF init_module, useVars
    <2>2. Inherited = {} => chip # "on" /\ path["reception"] = << >> /\ lpl_timer = "off" /\ open = "no"
      BY DEF Inherited
    <2>3. Inherited = {} => chip = "off" /\ path["process"] = << >>
      BY <1>1, <2>2 DEF UseInv, TypeOK
    <2>4. ToSet(<< >>) = {}
      BY DEF ToSet
    <2> QED  BY <1>1, <2>1, <2>2, <2>3, <2>4 DEF UseInv, Users
  <1>3. CASE Bind \/ Acquire \/ Refuse \/ RefuseUnnoticed \/ create_workqueue
    <2>1. UNCHANGED <<chip, open, path, lpl_timer, careless>> /\ phase # "ready"
      BY <1>3 DEF Bind, Acquire, Refuse, RefuseUnnoticed, create_workqueue, useVars, Loading
    <2> QED  BY <1>1, <2>1 DEF UseInv
  <1>4. CASE cleanup_module
    <2>1. /\ open = "no" /\ careless' = careless \cup (Inherited \ {"early"})
          /\ UNCHANGED <<chip, open, path, lpl_timer>>
      BY <1>4 DEF cleanup_module, useVars
    <2>2. careless' = {} => careless = {} /\ "on" \notin Inherited /\ "hasty" \notin Inherited
      BY <2>1
    <2>3. careless' = {} => chip # "on" /\ path["reception"] = << >> /\ lpl_timer = "off"
      BY <2>2 DEF Inherited
    <2>4. careless' = {} => chip = "off" /\ path["process"] = << >>
      BY <1>1, <2>1, <2>3 DEF UseInv, TypeOK
    <2> QED  BY <1>1, <2>1, <2>2, <2>3, <2>4 DEF UseInv, Users
  <1>5. CASE Free
    <2>1. /\ phase # "ready" /\ phase' = phase /\ UNCHANGED <<chip, open, path, careless>>
          /\ lpl_timer' \in {"off", lpl_timer}
      BY <1>5 DEF Free
    <2> QED  BY <1>1, <2>1 DEF UseInv
  <1>6. CASE Gone
    <2>1. /\ phase # "ready" /\ UNCHANGED <<chip, careless>>
          /\ path' = [c \in DOMAIN path |-> IF path[c] = << >> THEN << >> ELSE <<"gone">>]
          /\ open' = (IF open = "no" THEN "no" ELSE "stale")
          /\ lpl_timer' = IF lpl_timer = "off" THEN "off" ELSE "stale"
      BY <1>6 DEF Gone
    <2>2. DOMAIN path = Users
      BY <1>1 DEF UseInv
    <2>3. path' \in [Users -> Seq(DOMAIN Needs)]
      <3>1. << >> \in Seq(DOMAIN Needs) /\ <<"gone">> \in Seq(DOMAIN Needs)
        BY DEF Needs
      <3> QED  BY <2>1, <2>2, <3>1
    <2>4. \A c \in Users : path'[c] = IF path[c] = << >> THEN << >> ELSE <<"gone">>
      BY <2>1, <2>2
    <2>5. path'["process"] # << >> => open' # "no"
      BY <1>1, <2>1, <2>4 DEF UseInv, Users
    <2>6. careless = {} => \A c \in Users : path'[c] = << >>
      BY <1>1, <2>1, <2>4 DEF UseInv
    <2>7. ToSet(<< >>) = {}
      BY DEF ToSet
    <2> QED  BY <1>1, <2>1, <2>3, <2>5, <2>6, <2>7 DEF UseInv
  <1>7. CASE Open
    <2>1. /\ open' = "yes" /\ UNCHANGED <<phase, chip, path, lpl_timer>>
          /\ careless' = IF phase = "ready" THEN careless ELSE careless \cup {"early"}
      BY <1>7 DEF Open, loadVars
    <2>2. careless' = {} => careless = {} /\ phase = "ready"
      BY <2>1
    <2> QED  BY <1>1, <2>1, <2>2 DEF UseInv
  <1>8. CASE Close
    BY <1>1, <1>8 DEF UseInv, Close, loadVars
  <1>9. CASE Expire
    BY <1>1, <1>9 DEF UseInv, Expire, loadVars
  <1>10. ASSUME NEW op \in {"write", "read", "on", "off"}, Call(op) PROVE UseInv'
    <2>1. /\ open # "no" /\ UNCHANGED <<phase, chip, open, lpl_timer, careless>>
          /\ path' = [path EXCEPT !["process"] = IF open = "stale" THEN <<"gone">> ELSE Path[op]]
      BY <1>10 DEF Call, loadVars
    <2>2. <<"gone">> \in Seq(DOMAIN Needs)
      BY DEF Needs
    <2>3. /\ path' \in [Users -> Seq(DOMAIN Needs)] /\ path'["reception"] = path["reception"]
          /\ path'["process"] = IF open = "stale" THEN <<"gone">> ELSE Path[op]
      BY <1>1, <2>1, <2>2, OperationPath DEF UseInv, Users
    <2>4. careless = {} => phase = "ready" /\ open # "stale"
      BY <1>1, <2>1 DEF UseInv
    <2>5. careless = {} => \A c \in Users : "gone" \notin ToSet(path'[c])
      BY <1>1, <2>3, <2>4, OperationPath DEF UseInv, Users
    <2> QED  BY <1>1, <2>1, <2>3, <2>4, <2>5 DEF UseInv
  <1>11. CASE Fifop
    <2>1. /\ chip = "on" /\ UNCHANGED <<phase, chip, open, lpl_timer, careless>>
          /\ path' = [path EXCEPT !["reception"] = Path["fifop"]]
      BY <1>11 DEF Fifop, loadVars
    <2>2. /\ path' \in [Users -> Seq(DOMAIN Needs)] /\ path'["process"] = path["process"]
          /\ path'["reception"] = Path["fifop"]
      BY <1>1, <2>1, OperationPath DEF UseInv, Users
    <2>3. careless = {} => phase = "ready"
      BY <1>1, <2>1 DEF UseInv
    <2>4. careless = {} => \A c \in Users : "gone" \notin ToSet(path'[c])
      BY <1>1, <2>2, OperationPath DEF UseInv, Users
    <2> QED  BY <1>1, <2>1, <2>2, <2>3, <2>4 DEF UseInv
  <1>12. ASSUME NEW c \in Users, Step(c) PROVE UseInv'
    <2>1. /\ path[c] # << >> /\ UNCHANGED <<phase, open, careless>>
          /\ path' = [path EXCEPT ![c] = Tail(path[c])]
          /\ lpl_timer' \in {lpl_timer, "armed"}
      BY <1>12 DEF Step, loadVars
    <2>2. careless = {} => phase = "ready"
      BY <1>1, <2>1 DEF UseInv
    <2>3. /\ path' \in [Users -> Seq(DOMAIN Needs)]
          /\ path'[c] = Tail(path[c]) /\ \A d \in Users \ {c} : path'[d] = path[d]
      BY <1>1, <2>1, PathTail DEF UseInv
    <2>4. path'["process"] # << >> => path["process"] # << >>
      BY <2>1, <2>3 DEF Users
    <2>5. careless = {} => \A d \in Users : "gone" \notin ToSet(path'[d])
      BY <1>1, <2>1, <2>3, PathTail DEF UseInv
    <2> QED  BY <1>1, <2>1, <2>2, <2>3, <2>4, <2>5 DEF UseInv
  <1>13. CASE UNCHANGED vars
    BY <1>1, <1>13 DEF UseInv, vars, useVars, loadVars
  <1> QED
    BY <1>2, <1>3, <1>4, <1>5, <1>6, <1>7, <1>8, <1>9, <1>10, <1>11, <1>12, <1>13 DEF Next, Users

\* Once the free functions are done nothing is held that they owe
LEMMA NothingOwed ==
  ASSUME LifecycleInv, phase = "absent"
  PROVE  /\ held \cap Owed = {}
         /\ refused \subseteq Unnoticed \/ held \subseteq Left
  <1>1. todo = << >> /\ held \cap Owed \subseteq Pending
        /\ (refused \subseteq Unnoticed \/ held \subseteq Pending \cup Left)
    BY DEF LifecycleInv, FreeInv
  <1>2. Pending = {}
    BY <1>1 DEF Pending
  <1> QED  BY <1>1, <1>2

\* A reception passes no place that sends
LEMMA ReceptionSendsNot == "radio_tx" \notin ToSet(Path["fifop"])
  <1>1. Path["fifop"] = <<"radio_rx", "sack_rx", "csma_rx", "lpl_rx", "unique_rx", "interface_rx">>
    BY DEF Path
  <1> QED  BY <1>1 DEF ToSet

\* Every step preserves what is left, open and running of earlier loads
LEMMA LeftInvNext ==
  ASSUME LifecycleInv, [Next]_vars
  PROVE  LeftInv'
  <1>1. TypeOK /\ UseInv /\ LeftInv
    BY DEF LifecycleInv
  <1>2. CASE init_module
    <2>1. /\ phase = "absent" /\ careless' = Inherited
          /\ left' = left \cup (held \cap Exclusive)
          /\ UNCHANGED <<open, path, lpl_timer>>
      BY <1>2 DEF init_module, useVars
    <2>2. held \cap Exclusive = {}
      BY <2>1, NothingOwed DEF Owed, Exclusive
    <2>3. (open # "no" => "early" \in Inherited) /\ (lpl_timer # "off" => "hasty" \in Inherited)
      BY DEF Inherited
    <2> QED  BY <1>1, <2>1, <2>2, <2>3 DEF LeftInv
  <1>3. CASE Bind \/ Acquire \/ Refuse \/ RefuseUnnoticed \/ create_workqueue
    <2>1. UNCHANGED <<left, open, path, lpl_timer, careless>> /\ phase # "ready"
      BY <1>3 DEF Bind, Acquire, Refuse, RefuseUnnoticed, create_workqueue, useVars, Loading
    <2> QED  BY <1>1, <2>1 DEF LeftInv
  <1>4. CASE cleanup_module
    <2>1. /\ open = "no" /\ careless' = careless \cup (Inherited \ {"early"})
          /\ UNCHANGED <<left, open, path, lpl_timer>>
      BY <1>4 DEF cleanup_module, useVars
    <2>2. lpl_timer # "off" => "hasty" \in Inherited
      BY DEF Inherited
    <2> QED  BY <1>1, <2>1, <2>2 DEF LeftInv
  <1>5. CASE Free
    <2>1. /\ phase # "ready" /\ UNCHANGED <<left, open, path, careless>>
          /\ lpl_timer' \in {"off", lpl_timer}
      BY <1>5 DEF Free
    <2> QED  BY <1>1, <2>1 DEF LeftInv
  <1>6. CASE Gone
    <2>1. /\ phase # "ready" /\ UNCHANGED <<left, careless>>
          /\ path' = [c \in DOMAIN path |-> IF path[c] = << >> THEN << >> ELSE <<"gone">>]
          /\ open' = (IF open = "no" THEN "no" ELSE "stale")
          /\ lpl_timer' = IF lpl_timer = "off" THEN "off" ELSE "stale"
      BY <1>6 DEF Gone
    <2>2. path'["reception"] = << >> \/ path'["reception"] = <<"gone">>
      BY <1>1, <2>1 DEF UseInv, Users
    <2>3. "radio_tx" \notin ToSet(path'["reception"])
      BY <2>2 DEF ToSet
    <2> QED  BY <1>1, <2>1, <2>3 DEF LeftInv
  <1>7. CASE Open
    <2>1. /\ UNCHANGED <<phase, left, path, lpl_timer>>
          /\ careless' = IF phase = "ready" THEN careless ELSE careless \cup {"early"}
      BY <1>7 DEF Open, loadVars
    <2> QED  BY <1>1, <2>1 DEF LeftInv
  <1>8. CASE Close \/ Expire
    <2>1. /\ UNCHANGED <<phase, left, path, careless>>
          /\ open' \in {"no", open} /\ lpl_timer' \in {"off", lpl_timer}
      BY <1>8 DEF Close, Expire, loadVars
    <2> QED  BY <1>1, <2>1 DEF LeftInv
  <1>9. ASSUME NEW op \in {"write", "read", "on", "off"}, Call(op) PROVE LeftInv'
    <2>1. UNCHANGED <<phase, left, open, lpl_timer, careless>>
          /\ path'["reception"] = path["reception"]
      BY <1>1, <1>9 DEF Call, loadVars, UseInv, Users
    <2> QED  BY <1>1, <2>1 DEF LeftInv
  <1>10. CASE Fifop
    <2>1. UNCHANGED <<phase, left, open, lpl_timer, careless>>
          /\ path'["reception"] = Path["fifop"]
      BY <1>1, <1>10 DEF Fifop, loadVars, UseInv, Users
    <2> QED  BY <1>1, <2>1, ReceptionSendsNot DEF LeftInv
  <1>11. ASSUME NEW c \in Users, Step(c) PROVE LeftInv'
    <2>1. /\ path[c] # << >> /\ UNCHANGED <<phase, left, open, careless>>
          /\ path' = [path EXCEPT ![c] = Tail(path[c])]
          /\ lpl_timer' = lpl_timer \/ (Head(path[c]) = "radio_tx" /\ lpl_timer' = "armed")
      BY <1>11 DEF Step, loadVars
    <2>2. "radio_tx" \notin ToSet(path'["reception"])
      <3>1. CASE c = "reception"
        <4>1. path'["reception"] = Tail(path["reception"])
          BY <1>1, <2>1, <3>1 DEF UseInv, Users
        <4>2. ToSet(Tail(path["reception"])) \subseteq ToSet(path["reception"])
          BY <2>1, <3>1, PathTail
        <4> QED  BY <1>1, <4>1, <4>2 DEF LeftInv
      <3>2. CASE c # "reception"
        <4>1. path'["reception"] = path["reception"]
          BY <1>1, <2>1, <3>2 DEF UseInv, Users
        <4> QED  BY <1>1, <4>1 DEF LeftInv
      <3> QED  BY <3>1, <3>2
    <2>3. Head(path[c]) = "radio_tx" => open # "no"
      <3>1. Head(path[c]) \in ToSet(path[c])
        BY <2>1, PathTail
      <3>2. Head(path[c]) = "radio_tx" => c = "process"
        BY <1>1, <3>1 DEF LeftInv, Users
      <3> QED  BY <1>1, <2>1, <3>2 DEF UseInv
    <2> QED  BY <1>1, <2>1, <2>2, <2>3 DEF LeftInv
  <1>12. CASE UNCHANGED vars
    BY <1>1, <1>12 DEF LeftInv, vars, useVars, loadVars
  <1> QED
    BY <1>2, <1>3, <1>4, <1>5, <1>6, <1>7, <1>8, <1>9, <1>10, <1>11, <1>12 DEF Next, Users

\* Every step preserves the safety of careful use
LEMMA SafeNext ==
  ASSUME LifecycleInv, [Next]_vars
  PROVE  CarefulUseSafe'
  <1>1. TypeOK /\ LoadInv /\ FreeInv /\ UseInv /\ CarefulUseSafe
    BY DEF LifecycleInv
  <1>2. CASE Free
    <2>1. /\ todo # << >> /\ oops' = BadFree(Head(todo)) /\ refused' = refused
      BY <1>2 DEF Free
    <2>2. Head(todo) \in ToSet(todo)
      BY <1>1, <2>1, TodoTail
    <2>3. BadFree(Head(todo)) => refused \cap {"class", "wq"} # {}
      BY <1>1, <2>2 DEF BadFree, FreeInv
    <2> QED  BY <2>1, <2>3 DEF CarefulUseSafe
  <1>3. CASE Expire
    <2>1. oops' = (lpl_timer = "stale") /\ UNCHANGED <<refused, careless>>
      BY <1>3 DEF Expire, loadVars
    <2> QED  BY <1>1, <2>1 DEF CarefulUseSafe, UseInv
  <1>4. ASSUME NEW c \in Users, Step(c) PROVE CarefulUseSafe'
    <2>1. /\ path[c] # << >> /\ oops' = ~(Needs[Head(path[c])] \subseteq There)
          /\ UNCHANGED <<refused, careless>>
      BY <1>4 DEF Step, loadVars
    <2>2. careless = {} => phase = "ready" /\ Head(path[c]) \in Places
      BY <1>1, <2>1, PathTail DEF UseInv, Places
    <2>3. careless = {} => Needs[Head(path[c])] \subseteq There
      BY <2>2, ReadyHasAll
    <2> QED  BY <2>1, <2>3 DEF CarefulUseSafe
  <1>5. ASSUME oops' = oops, Next \/ UNCHANGED vars PROVE CarefulUseSafe'
    <2>1. CASE Next
      BY <1>5, <2>1 DEF Next, CarefulUseSafe
    <2>2. CASE UNCHANGED vars
      BY <1>1, <2>2 DEF vars, loadVars, CarefulUseSafe
    <2> QED  BY <1>5, <2>1, <2>2
  <1>6. CASE Open \/ Close \/ Fifop \/ (\E op \in {"write", "read", "on", "off"} : Call(op))
             \/ UNCHANGED vars
    BY <1>5, <1>6 DEF Open, Close, Fifop, Call, vars
  <1>7. CASE init_module \/ Bind \/ Acquire \/ Refuse \/ RefuseUnnoticed \/ create_workqueue
             \/ cleanup_module \/ Gone
    BY <1>5, <1>7 DEF init_module, Bind, Acquire, Refuse, RefuseUnnoticed, create_workqueue,
                      cleanup_module, Gone
  <1> QED  BY <1>2, <1>3, <1>4, <1>6, <1>7 DEF Next, Users

\* The place of init_module in terms of TypeOK
LEMMA PlaceTyped ==
  ASSUME NEW l \in 1..9, NEW s, l = 9 => s = 0, l # 9 => s \in 0..Len(Init_of[Layers[l]])
  PROVE  l \in 1..Len(Layers) + 1
         /\ s \in 0..(IF l > Len(Layers) THEN 0 ELSE Len(Init_of[Layers[l]]))
  <1>1. Len(Layers) = 8
    BY LayerOrder
  <1>2. CASE l = 9
    BY <1>1, <1>2
  <1>3. CASE l # 9
    BY <1>1, <1>3
  <1> QED  BY <1>2, <1>3

\* Every step preserves the types
LEMMA TypeNext ==
  ASSUME LifecycleInv, [Next]_vars
  PROVE  TypeOK'
  <1> DEFINE PlaceIs == layer \in 1..Len(Layers) + 1
                        /\ step \in 0..(IF layer > Len(Layers) THEN 0 ELSE Len(Init_of[Layers[layer]]))
             BusIs == loads \in 0..MaxLoads /\ bus \subseteq 0..loads /\ spi_device \in 0..loads
             UseIs == chip \in {"off", "on"} /\ open \in {"no", "yes", "stale"}
                      /\ lpl_timer \in {"off", "armed", "stale"} /\ oops \in BOOLEAN
                      /\ careless \subseteq {"early", "on", "hasty"}
             RestIs == phase \in {"absent", "init", "undo", "ready", "cleanup"}
                       /\ left \subseteq Exclusive /\ bound \subseteq ToSet(Layers)
  <1>1. PlaceIs /\ BusIs /\ UseIs /\ RestIs
    BY DEF LifecycleInv, TypeOK
  <1>2. SUFFICES PlaceIs' /\ BusIs' /\ UseIs' /\ RestIs'
    <2>1. FreeInv' /\ UseInv'
      BY FreeInvNext, UseInvNext
    <2>2. DOMAIN path' = {"process", "reception"}
      BY <2>1 DEF UseInv, Users
    <2>3. ToSet(todo') \subseteq ToSet(Layers) \cup {"wq"}
      <3>1. DOMAIN todo' = 1..Len(todo') /\ \A i \in 1..Len(todo') : todo'[i] \in Freed
        BY <2>1 DEF FreeInv
      <3>2. Freed \subseteq ToSet(Layers) \cup {"wq"}
        <4>1. DOMAIN Layers = 1..8
          BY DEF Layers
        <4> QED  BY <4>1, LayerOrder DEF Freed, ToSet
      <3> QED  BY <3>1, <3>2 DEF ToSet
    <2> QED  BY <2>2, <2>3 DEF TypeOK
  <1>3. PlaceIs'
    <2>1. TypeOK
      BY DEF LifecycleInv
    <2>2. CASE init_module
      <3>1. layer' = 1 /\ step' = 0 /\ Len(Init_of[Layers[1]]) \in Nat
        BY <2>2, LayerSeq DEF init_module
      <3> QED  BY <3>1, LayerOrder
    <2>3. CASE Bind
      <3>1. layer \in 1..8
            /\ ((layer' = layer /\ step' = 1 /\ layer # 8) \/ (layer' = 9 /\ step' = 0))
        BY <2>1, <2>3, Begins
      <3>2. layer' \in 1..9 /\ (layer' = 9 => step' = 0)
            /\ (layer' # 9 => step' \in 0..Len(Init_of[Layers[layer']]))
        <4>1. CASE layer' = layer
          <5>1. layer \in 1..7 \/ (layer' = 9 /\ step' = 0)
            BY <3>1
          <5>2. layer \in 1..7 => Len(Init_of[Layers[layer]]) \in Nat /\ Len(Init_of[Layers[layer]]) > 0
            BY LayerSeq
          <5> QED  BY <3>1, <4>1, <5>1, <5>2
        <4>2. CASE layer' = 9 /\ step' = 0
          BY <4>2
        <4> QED  BY <3>1, <4>1, <4>2
      <3> QED  BY <3>2, PlaceTyped
    <2>4. CASE Acquire \/ RefuseUnnoticed
      <3>1. Loading /\ step > 0 /\ Advance
        BY <2>4 DEF Acquire, RefuseUnnoticed
      <3>2. /\ layer \in 1..8
            /\ \/ layer' = layer /\ step' = step + 1 /\ step' \in 0..Len(Init_of[Layers[layer']])
               \/ layer' = layer + 1 /\ step' = 0
        BY <2>1, <3>1, Advances
      <3>3. layer' \in 1..9 /\ (layer' = 9 => step' = 0)
            /\ (layer' # 9 => step' \in 0..Len(Init_of[Layers[layer']]))
        <4>1. CASE layer' = layer
          BY <3>2, <4>1
        <4>2. CASE layer' = layer + 1
          <5>1. step' = 0 /\ layer' \in 2..9
            BY <3>2, <4>2
          <5>2. layer' # 9 => Len(Init_of[Layers[layer']]) \in Nat
            BY <5>1, LayerSeq
          <5> QED  BY <5>1, <5>2
        <4> QED  BY <3>2, <4>1, <4>2
      <3> QED  BY <3>3, PlaceTyped
    <2>5. CASE UNCHANGED <<layer, step>>
      BY <1>1, <2>5
    <2>6. CASE Refuse \/ create_workqueue \/ cleanup_module \/ Free \/ Gone
      BY <2>5, <2>6 DEF Refuse, create_workqueue, cleanup_module, Free, Gone
    <2>7. CASE Open \/ Close \/ Fifop \/ Expire
               \/ (\E op \in {"write", "read", "on", "off"} : Call(op))
               \/ (\E c \in {"process", "reception"} : Step(c))
               \/ UNCHANGED vars
      BY <2>5, <2>7 DEF Open, Close, Fifop, Expire, Call, Step, vars, loadVars
    <2> HIDE DEF PlaceIs
    <2> QED  BY <2>2, <2>3, <2>4, <2>6, <2>7 DEF Next
  <1>4. BusIs'
    <2>1. loads \in Nat
      BY <1>1, LifecycleAssumption
    <2>2. CASE init_module
      BY <1>1, <2>1, <2>2, LifecycleAssumption DEF init_module
    <2>3. CASE Acquire
      <3>1. loads' = loads /\ (bus' = bus \/ bus' = {loads})
        BY <2>3 DEF Acquire
      <3>2. spi_device' \in 0..loads
        <4>1. CASE Wants = "spi_drv"
          <5>1. phase = "init" /\ step > 0 /\ layer \in 1..8 /\ Wants \in ToSet(Init_of[This]) /\ This = Layers[layer]
            BY <2>3, Advances DEF Acquire, Loading, LifecycleInv, This
          <5>2. layer = 2
            <6>1. CASE layer \in {1, 3, 4}
              BY <4>1, <5>1, <6>1, LayerOrder, LayerSets
            <6>2. CASE layer \in {5, 6, 7, 8}
              BY <4>1, <5>1, <6>2, LayerOrder, LayerSets
            <6> QED  BY <5>1, <6>1, <6>2
          <5>3. Init_of[Layers[2]] = <<"spi_dev", "spi_drv">>
            BY LayerOrder, LayerInit
          <5>4. step \in 1..2
            BY <5>1, <5>2, <5>3, PlaceOK DEF LifecycleInv
          <5>5. step = 2
            BY <4>1, <5>2, <5>3, <5>4 DEF Wants, This
          <5>6. bus = {loads}
            BY <5>1, <5>2, <5>5 DEF LifecycleInv, LoadInv
          <5>7. (CHOOSE d \in {loads} : TRUE) = loads
            OBVIOUS
          <5>8. spi_device' = loads
            BY <2>3, <4>1, <5>6, <5>7 DEF Acquire
          <5> QED  BY <2>1, <5>8
        <4>2. CASE Wants # "spi_drv"
          BY <1>1, <2>3, <4>2 DEF Acquire
        <4> QED  BY <4>1, <4>2
      <3>3. bus' \subseteq 0..loads
        <4>1. loads \in 0..loads /\ bus \subseteq 0..loads
          BY <1>1, <2>1
        <4>2. CASE bus' = {loads}
          BY <4>1, <4>2
        <4> QED  BY <3>1, <4>1, <4>2
      <3> QED  BY <1>1, <3>1, <3>2, <3>3
    <2>4. CASE Free
      <3>1. loads' = loads /\ bus' \subseteq bus /\ spi_device' \in {0, spi_device}
        BY <2>4 DEF Free
      <3>2. spi_device' \in 0..loads
        BY <1>1, <2>1, <3>1
      <3> QED  BY <1>1, <3>1, <3>2
    <2>5. CASE Refuse
      <3>1. UNCHANGED <<loads, spi_device>> /\ (bus' = bus \/ bus' = {})
        BY <2>5 DEF Refuse, still_on_bus
      <3> QED  BY <1>1, <3>1
    <2>6. CASE UNCHANGED <<loads, bus, spi_device>>
      BY <1>1, <2>6
    <2>7. CASE Bind \/ RefuseUnnoticed \/ create_workqueue \/ cleanup_module \/ Gone
      BY <2>6, <2>7 DEF Bind, RefuseUnnoticed, create_workqueue, cleanup_module, Gone
    <2>8. CASE Open \/ Close \/ Fifop \/ Expire
               \/ (\E op \in {"write", "read", "on", "off"} : Call(op))
               \/ (\E c \in {"process", "reception"} : Step(c))
               \/ UNCHANGED vars
      BY <2>6, <2>8 DEF Open, Close, Fifop, Expire, Call, Step, vars, loadVars
    <2> HIDE DEF BusIs
    <2> QED  BY <2>2, <2>3, <2>4, <2>5, <2>7, <2>8 DEF Next
  <1>5. UseIs'
    <2>1. Inherited \subseteq {"on", "hasty", "early"}
      BY DEF Inherited
    <2>2. CASE init_module \/ cleanup_module
      BY <1>1, <2>1, <2>2 DEF init_module, cleanup_module, useVars
    <2>3. CASE Bind \/ Acquire \/ Refuse \/ RefuseUnnoticed \/ create_workqueue
      <3>1. UNCHANGED <<useVars, oops, careless>>
        BY <2>3 DEF Bind, Acquire, Refuse, RefuseUnnoticed, create_workqueue
      <3> QED  BY <1>1, <3>1 DEF useVars
    <2>4. CASE Free
      BY <1>1, <2>4 DEF Free, BadFree
    <2>5. CASE Gone \/ Open \/ Close \/ Fifop \/ Expire
      BY <1>1, <2>5 DEF Gone, Open, Close, Fifop, Expire
    <2>6. ASSUME NEW op \in {"write", "read", "on", "off"}, Call(op) PROVE UseIs'
      BY <1>1, <2>6 DEF Call
    <2>7. ASSUME NEW c \in {"process", "reception"}, Step(c) PROVE UseIs'
      BY <1>1, <2>7 DEF Step
    <2>8. CASE UNCHANGED vars
      BY <1>1, <2>8 DEF vars, useVars
    <2> HIDE DEF UseIs
    <2> QED  BY <2>2, <2>3, <2>4, <2>5, <2>6, <2>7, <2>8 DEF Next
  <1>6. RestIs'
    <2>1. CASE init_module \/ Acquire \/ Refuse \/ RefuseUnnoticed \/ create_workqueue
               \/ cleanup_module \/ Free \/ Gone
      BY <1>1, <2>1, \A h : h \cap Exclusive \subseteq Exclusive DEF init_module, Acquire, Refuse, RefuseUnnoticed, create_workqueue,
                        cleanup_module, Free, Gone
    <2>2. CASE Bind
      <3>1. layer \in 1..8
        BY <2>2, Begins DEF LifecycleInv
      <3>2. This \in ToSet(Layers)
        <4>1. DOMAIN Layers = 1..8
          BY DEF Layers
        <4> QED  BY <3>1, <4>1 DEF ToSet, This
      <3> QED  BY <1>1, <2>2, <3>2 DEF Bind
    <2>3. CASE UNCHANGED loadVars
      BY <1>1, <2>3 DEF loadVars
    <2>4. CASE Open \/ Close \/ Fifop \/ Expire
               \/ (\E op \in {"write", "read", "on", "off"} : Call(op))
               \/ (\E c \in {"process", "reception"} : Step(c))
               \/ UNCHANGED vars
      BY <2>3, <2>4 DEF Open, Close, Fifop, Expire, Call, Step, vars
    <2> HIDE DEF RestIs
    <2> QED  BY <2>1, <2>2, <2>4 DEF Next
  <1> QED  BY <1>3, <1>4, <1>5, <1>6

-----------------------------------------------------------------------------
(* The theorems.                                                           *)

\* A machine on which the module has never been loaded
LEMMA InitInv == Init => LifecycleInv
  <1>1. SUFFICES ASSUME Init PROVE LifecycleInv
    OBVIOUS
  <1>2. UNION { Pieces(todo[i]) : i \in DOMAIN todo } = {} /\ ToSet(<< >>) = {}
    BY <1>1 DEF Init, ToSet
  <1>3. TypeOK
    <2>1. layer \in 1..Len(Layers) + 1
          /\ step \in 0..(IF layer > Len(Layers) THEN 0 ELSE Len(Init_of[Layers[layer]]))
      <3>1. layer = 1 /\ step = 0 /\ Len(Init_of[Layers[1]]) \in Nat
        BY <1>1, LayerSeq DEF Init
      <3> QED  BY <3>1, LayerOrder
    <2>2. bus \subseteq 0..loads /\ spi_device \in 0..loads /\ loads \in 0..MaxLoads
      BY <1>1, LifecycleAssumption DEF Init
    <2>3. ToSet(todo) \subseteq ToSet(Layers) \cup {"wq"}
      BY <1>1, <1>2 DEF Init
    <2> QED  BY <1>1, <2>1, <2>2, <2>3 DEF Init, TypeOK
  <1>4. LoadInv
    BY <1>1 DEF Init, LoadInv
  <1>5. FreeInv
    BY <1>1, <1>2 DEF Init, FreeInv, Pending
  <1>6. UseInv
    BY <1>1, <1>2 DEF Init, UseInv, Users
  <1>7. CarefulUseSafe
    BY <1>1 DEF Init, CarefulUseSafe
  <1>8. LeftInv
    BY <1>1, <1>2 DEF Init, LeftInv
  <1> QED  BY <1>3, <1>4, <1>5, <1>6, <1>7, <1>8 DEF LifecycleInv

\* Loading, unloading and using the module keep the inductive invariant: the
\* layers' acquisitions and releases, the free functions that remain and what a
\* careful user has under way.
THEOREM LifecycleInvariant == Spec => []LifecycleInv
  <1>1. LifecycleInv /\ [Next]_vars => LifecycleInv'
    BY LoadInvNext, FreeInvNext, UseInvNext, LeftInvNext, SafeNext, TypeNext DEF LifecycleInv
  <1> QED  BY <1>1, InitInv, PTL DEF Spec

\* init_module and cleanup_module stay within the tables of the layers, and the
\* device state.spi_device points to was put on the bus by a load that took place.
THEOREM TypeCorrect == Spec => []TypeOK
  <1>1. LifecycleInv => TypeOK
    BY DEF LifecycleInv
  <1> QED  BY <1>1, LifecycleInvariant, PTL

\* However often the module is loaded, and whatever the kernel refuses, a careful
\* user never meets a buffer, a handler or a module that is not there.
THEOREM CarefulUseIsSafe == Spec => []CarefulUseSafe
  <1>1. LifecycleInv => CarefulUseSafe
    BY DEF LifecycleInv
  <1> QED  BY <1>1, LifecycleInvariant, PTL

\* However a load ends, by cleanup_module or by the errors of init_module, no
\* registration that calls into the module is left, an error leaves what Left says,
\* and an open file, a running timer or a reception under way goes back to a
\* careless use of that load.
THEOREM NothingCallsInAfter == Spec => []NothingCallsIn
  <1>1. LifecycleInv => NothingCallsIn
    <2>1. SUFFICES ASSUME LifecycleInv, phase = "absent" PROVE NothingCallsIn
      BY DEF NothingCallsIn
    <2>2. held \cap Owed = {} /\ (refused \subseteq Unnoticed \/ held \subseteq Left)
      BY <2>1, NothingOwed
    <2>3. path["reception"] # << >> => careless # {}
      BY <2>1 DEF LifecycleInv, UseInv, Users
    <2> QED  BY <2>1, <2>2, <2>3 DEF NothingCallsIn, Owed, Left, LifecycleInv, LeftInv
  <1> QED  BY <1>1, LifecycleInvariant, PTL

\* The free functions give back every pin, handler and name, and
\* cc2520_spi_add_to_bus clears the chip select: no load fails because of an earlier
\* one, and spi_register_driver probes the device of this load.
THEOREM LoadIsNotBlocked == Spec => []LoadNotBlocked
  <1>1. LifecycleInv => LoadNotBlocked
    BY DEF LifecycleInv, LoadInv, FreeInv, LoadNotBlocked
  <1> QED  BY <1>1, LifecycleInvariant, PTL
=============================================================================
