--------------------------- MODULE MCRparamServer ---------------------------
(* Instances of RparamServer for TLC.                                      *)
EXTENDS RparamServer, TLC

Row(name, size) == [name |-> name, size |-> size]

\* The rows of tables 0, 1 and 4 (exp_rparam_table.c:33-117): the bytes of a
\* row are those of its elements and of an address for each.
Tables == (
    0 :> << Row("uid", 18), Row("type", 10), Row("rev", 9), Row("csp_addr", 3),
            Row("csp_port", 18), Row("csp_rtable", 98), Row("can_speed", 4),
            Row("reboot_in", 4), Row("default_in", 4) >> @@
    1 :> << Row("ex", 66), Row("status", 3), Row("retcode", 3), Row("pages", 3),
            Row("page", 3), Row("outlen", 4), Row("out", 130) >> @@
    4 :> << Row("sys_uptime", 6), Row("sensor_stat", 3), Row("bme_temp", 4),
            Row("bme_press", 6), Row("bme_hum", 4), Row("lsm_accel", 12),
            Row("lsm_gyro", 12), Row("lsm_temp", 4), Row("ntc_temp", 32),
            Row("board_temp", 4), Row("pwr_volt", 16), Row("pwr_curr", 16) >> )

\* The rows of a result, and all the rows that are read.
SomeLists == {{"status", "pages", "page", "outlen", "out"},
              {"ex", "status", "retcode", "pages", "page", "outlen", "out"}}
=============================================================================
