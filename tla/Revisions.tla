----------------------------- MODULE Revisions -----------------------------
(***************************************************************************)
(* The chain of alembic/versions: what upgrade() and downgrade() of each     *)
(* revision do, in their order.                                              *)
(***************************************************************************)
EXTENDS Schema

LOCAL INSTANCE SequencesExt

IndexOn(name, t, c) == CreateIndex(Index(name, t, {c}))

\* The integer columns of trades_spec
Amounts ==
    {"sales_proprietary", "purchases_proprietary", "balance_proprietary",
     "sales_consignment_individual", "purchases_consignment_individual",
     "balance_consignment_individual", "sales_consignment_corporate",
     "purchases_consignment_corporate", "balance_consignment_corporate",
     "sales_consignment_investment_trust", "purchases_consignment_investment_trust",
     "balance_consignment_investment_trust", "sales_consignment_foreign",
     "purchases_consignment_foreign", "balance_consignment_foreign",
     "sales_consignment_other_corporate", "purchases_consignment_other_corporate",
     "balance_consignment_other_corporate", "sales_consignment_other",
     "purchases_consignment_other", "balance_consignment_other",
     "sales_total", "purchases_total", "balance_total"}

CreateStocks ==
    <<CreateTable("stocks",
        Plain({"id", "ticker_symbol", "company_name", "market", "sector", "industry",
               "market_cap", "description", "created_at", "updated_at"}),
        {Key("stocks_pkey", "stocks"), Key("uq_stocks_ticker_symbol", "stocks")}),
      IndexOn("ix_stocks_id", "stocks", "id"),
      IndexOn("ix_stocks_market", "stocks", "market"),
      IndexOn("ix_stocks_sector", "stocks", "sector"),
      IndexOn("ix_stocks_ticker_symbol", "stocks", "ticker_symbol")>>

DropStocks ==
    <<DropIndex("ix_stocks_ticker_symbol"), DropIndex("ix_stocks_sector"),
      DropIndex("ix_stocks_market"), DropIndex("ix_stocks_id"), DropTable("stocks")>>

CreatePrices ==
    <<CreateTable("prices",
        Plain({"id", "ticker_symbol", "timestamp", "open", "high", "low", "close",
               "volume", "adjusted_close", "created_at"}),
        {Key("prices_pkey", "prices"), Key("uq_prices_ticker_timestamp", "prices")}),
      IndexOn("ix_prices_id", "prices", "id"),
      IndexOn("ix_prices_ticker_symbol", "prices", "ticker_symbol"),
      IndexOn("ix_prices_timestamp", "prices", "timestamp")>>

DropPrices ==
    <<DropIndex("ix_prices_timestamp"), DropIndex("ix_prices_ticker_symbol"),
      DropIndex("ix_prices_id"), DropTable("prices")>>

CreateListedInfo ==
    <<CreateTable("listed_info", Plain(ListedInfoColumns),
        {Key("listed_info_pkey", "listed_info")}),
      IndexOn("idx_listed_info_code", "listed_info", "code"),
      IndexOn("idx_listed_info_date", "listed_info", "date")>>

DropListedInfo ==
    <<DropIndex("idx_listed_info_date"), DropIndex("idx_listed_info_code"),
      DropTable("listed_info")>>

\* 6e3476ca48f4, initial migration with existing tables
UpInitial ==
    CreateListedInfo \o CreatePrices \o CreateStocks \o <<DropTableIfExists("data_sources")>>

DownInitial == DropStocks \o DropPrices \o DropListedInfo

\* 7c1fab59358e, remove unused stock and price models
UpRemoveUnused == DropPrices \o DropStocks

DownRemoveUnused == CreateStocks \o CreatePrices

CreateBeatSchedules ==
    <<CreateTable("celery_beat_schedules",
        Plain({"id", "name", "task_name", "cron_expression", "enabled", "args", "kwargs",
               "description", "created_at", "updated_at"}),
        {Key("celery_beat_schedules_pkey", "celery_beat_schedules")}),
      IndexOn("ix_celery_beat_schedules_enabled", "celery_beat_schedules", "enabled"),
      CreateIndex(UniqueIndex("ix_celery_beat_schedules_name", "celery_beat_schedules",
                              {"name"}))>>

DropBeatSchedules ==
    <<DropIndex("ix_celery_beat_schedules_name"),
      DropIndex("ix_celery_beat_schedules_enabled"), DropTable("celery_beat_schedules")>>

CreateTaskLogs ==
    <<CreateTable("task_execution_logs", Plain(TaskExecutionLog.columns),
        {Key("task_execution_logs_pkey", "task_execution_logs"),
         Constraint("task_execution_logs_schedule_id_fkey", "task_execution_logs",
                    "celery_beat_schedules")}),
      IndexOn("ix_task_execution_logs_schedule_id", "task_execution_logs", "schedule_id"),
      IndexOn("ix_task_execution_logs_started_at", "task_execution_logs", "started_at"),
      IndexOn("ix_task_execution_logs_status", "task_execution_logs", "status"),
      IndexOn("ix_task_execution_logs_task_id", "task_execution_logs", "task_id"),
      IndexOn("ix_task_execution_logs_task_name", "task_execution_logs", "task_name")>>

DropTaskLogs ==
    <<DropIndex("ix_task_execution_logs_task_name"),
      DropIndex("ix_task_execution_logs_task_id"),
      DropIndex("ix_task_execution_logs_status"),
      DropIndex("ix_task_execution_logs_started_at"),
      DropIndex("ix_task_execution_logs_schedule_id"), DropTable("task_execution_logs")>>

\* 87e8a6480680, add celery beat tables
UpBeatTables == CreateBeatSchedules \o CreateTaskLogs

DownBeatTables == DropTaskLogs \o DropBeatSchedules

\* dba980847750, flexible task scheduling.  The `except' around drop_index does
\* not save the transaction.
UpFlexible ==
    <<DropConstraintIfThere(UniqueName),
      DropIndex("ix_celery_beat_schedules_name"),
      IndexOn("idx_celery_beat_schedules_name", "celery_beat_schedules", "name"),
      AddColumn("celery_beat_schedules", "category"),
      AddColumn("celery_beat_schedules", "tags"),
      AddColumn("celery_beat_schedules", "execution_policy"),
      AddColumn("celery_beat_schedules", "auto_generated_name"),
      AddConstraint(Key("ck_celery_beat_schedules_execution_policy", "celery_beat_schedules")),
      IndexOn("idx_celery_beat_schedules_category", "celery_beat_schedules", "category"),
      IndexOn("idx_celery_beat_schedules_tags", "celery_beat_schedules", "tags")>>

DownFlexible ==
    <<DropIndex("idx_celery_beat_schedules_tags"),
      DropIndex("idx_celery_beat_schedules_category"),
      DropConstraint("ck_celery_beat_schedules_execution_policy"),
      DropColumn("celery_beat_schedules", "auto_generated_name"),
      DropColumn("celery_beat_schedules", "execution_policy"),
      DropColumn("celery_beat_schedules", "tags"),
      DropColumn("celery_beat_schedules", "category"),
      DropIndex("idx_celery_beat_schedules_name"),
      AddUnique(Key(UniqueName, "celery_beat_schedules"))>>

TradesSpec(type) ==
    <<CreateTable("trades_spec",
        Plain({"code", "trade_date", "section", "created_at", "updated_at"})
          \cup Amounts \X {type},
        {Key("trades_spec_pkey", "trades_spec")}),
      IndexOn("idx_trades_spec_code", "trades_spec", "code"),
      IndexOn("idx_trades_spec_date", "trades_spec", "trade_date"),
      IndexOn("idx_trades_spec_section", "trades_spec", "section"),
      CreateIndex(Index("idx_trades_spec_date_section", "trades_spec",
                        {"trade_date", "section"}))>>

\* e1a2b3c4d5e6, add trades_spec table
UpTradesSpec == TradesSpec("integer")

DownTradesSpec ==
    <<DropIndex("idx_trades_spec_date_section"), DropIndex("idx_trades_spec_section"),
      DropIndex("idx_trades_spec_date"), DropIndex("idx_trades_spec_code"),
      DropTable("trades_spec")>>

\* 46d1fb0fb953, change integer columns to biginteger
UpBigInteger == <<AlterTypes("trades_spec", Amounts, "bigint")>>

DownBigInteger == <<AlterTypes("trades_spec", Amounts, "integer")>>

WeeklyMarginInterest ==
    <<CreateTable("weekly_margin_interest",
        Plain({"code", "date", "short_margin_trade_volume", "long_margin_trade_volume",
               "short_negotiable_margin_trade_volume", "long_negotiable_margin_trade_volume",
               "short_standardized_margin_trade_volume",
               "long_standardized_margin_trade_volume", "issue_type", "created_at",
               "updated_at"}),
        {Key("weekly_margin_interest_pkey", "weekly_margin_interest")}),
      IndexOn("idx_weekly_margin_interest_code", "weekly_margin_interest", "code"),
      IndexOn("idx_weekly_margin_interest_date", "weekly_margin_interest", "date"),
      CreateIndex(Index("idx_weekly_margin_interest_date_issue_type",
                        "weekly_margin_interest", {"date", "issue_type"})),
      IndexOn("idx_weekly_margin_interest_issue_type", "weekly_margin_interest",
              "issue_type")>>

DropWeeklyMarginInterest ==
    <<DropIndex("idx_weekly_margin_interest_issue_type"),
      DropIndex("idx_weekly_margin_interest_date_issue_type"),
      DropIndex("idx_weekly_margin_interest_date"),
      DropIndex("idx_weekly_margin_interest_code"), DropTable("weekly_margin_interest")>>

\* a6c57c53eda3, add weekly_margin_interest table
UpWeeklyMargin ==
    WeeklyMarginInterest \o
    <<DropIndex("idx_celery_beat_schedules_category"),
      DropIndex("idx_celery_beat_schedules_name"),
      DropIndex("idx_celery_beat_schedules_tags"),
      IndexOn("ix_celery_beat_schedules_category", "celery_beat_schedules", "category"),
      IndexOn("ix_celery_beat_schedules_name", "celery_beat_schedules", "name")>>

RestoreBeatIndexes ==
    <<IndexOn("idx_celery_beat_schedules_tags", "celery_beat_schedules", "tags"),
      IndexOn("idx_celery_beat_schedules_name", "celery_beat_schedules", "name"),
      IndexOn("idx_celery_beat_schedules_category", "celery_beat_schedules", "category")>>

\* Slip: the index that the revision dropped beside its subject is not restored.
DownWeeklyMarginOnly ==
    <<DropIndex("ix_celery_beat_schedules_name"),
      DropIndex("ix_celery_beat_schedules_category")>>
    \o Tail(RestoreBeatIndexes) \o <<DropTable("weekly_margin_interest")>>

DownWeeklyMargin ==
    <<DropIndex("ix_celery_beat_schedules_name"),
      DropIndex("ix_celery_beat_schedules_category")>>
    \o RestoreBeatIndexes \o DropWeeklyMarginInterest

Announcements(code) ==
    <<CreateTable("announcements",
        Plain({"date", "fiscal_quarter", "company_name", "fiscal_year", "sector_name",
               "section"}) \cup {<<"code", code>>},
        {Key("announcements_pkey", "announcements"), Key("uq_announcement", "announcements")}),
      IndexOn("ix_announcements_code", "announcements", "code"),
      IndexOn("ix_announcements_date", "announcements", "date")>>

\* 7e6aec3a2399, add announcements table
UpAnnouncements == Announcements("varchar4")

DownAnnouncements ==
    <<DropIndex("ix_announcements_date"), DropIndex("ix_announcements_code"),
      DropTable("announcements")>>

\* da6b106853ae, fix the length of announcements.code
UpCodeLength == <<AlterTypes("announcements", {"code"}, "varchar5")>>

DownCodeLength == <<AlterTypes("announcements", {"code"}, "varchar4")>>

\* 0bd55ee18e0a, remove trades_spec, weekly_margin_interest and announcements
UpRemoveThree ==
    <<DropTable("trades_spec"), DropTable("weekly_margin_interest"),
      DropTable("announcements")>>

\* Slip: trades_spec comes back as it was first created.
DownRemoveThreeAsCreated ==
    Announcements("varchar5") \o WeeklyMarginInterest \o TradesSpec("integer")

DownRemoveThree == Announcements("varchar5") \o WeeklyMarginInterest \o TradesSpec("bigint")

\* a3aa5ea18e77, rename listed_info to jquants_listed_info
UpRename ==
    <<RenameTable("listed_info", "jquants_listed_info"),
      RenameIndex("idx_listed_info_code", "idx_jquants_listed_info_code"),
      RenameIndex("idx_listed_info_date", "idx_jquants_listed_info_date"),
      RenameConstraint("listed_info_pkey", "jquants_listed_info_pkey")>>

DownRename ==
    <<RenameConstraint("jquants_listed_info_pkey", "listed_info_pkey"),
      RenameIndex("idx_jquants_listed_info_code", "idx_listed_info_code"),
      RenameIndex("idx_jquants_listed_info_date", "idx_listed_info_date"),
      RenameTable("jquants_listed_info", "listed_info")>>

\* Slip: the column was written into the model only.
UpLastRunAtInModel == << >>

\* b1c2d3e4f5g6, add last_run_at
UpLastRunAt ==
    <<AddColumn("celery_beat_schedules", "last_run_at"),
      IndexOn("idx_celery_beat_schedules_last_run_at", "celery_beat_schedules",
              "last_run_at")>>

DownLastRunAt ==
    <<DropIndex("idx_celery_beat_schedules_last_run_at"),
      DropColumn("celery_beat_schedules", "last_run_at")>>
-----------------------------------------------------------------------------
\* down_revision links the revisions to a chain; version k is after the k-th.
Up ==
    <<UpInitial, UpRemoveUnused, UpBeatTables, UpFlexible, UpTradesSpec, UpBigInteger,
      UpWeeklyMargin, UpAnnouncements, UpCodeLength, UpRemoveThree, UpRename, UpLastRunAt>>

Down ==
    <<DownInitial, DownRemoveUnused, DownBeatTables, DownFlexible, DownTradesSpec,
      DownBigInteger, DownWeeklyMargin, DownAnnouncements, DownCodeLength,
      DownRemoveThree, DownRename, DownLastRunAt>>

Base == 0
BeatTables == 3
HeadVersion == Len(Up)

\* The scripts alembic runs from one version to another, in one transaction
Scripts(from, to) ==
    IF from <= to
      THEN FlattenSeq(SubSeq(Up, from + 1, to))
      ELSE FlattenSeq([k \in 1..(from - to) |-> Down[from + 1 - k]])

Migrated(db, from, to) == Run(Scripts(from, to), db)

\* The database that only upgrades have made
Upgraded[v \in Base..HeadVersion] ==
    IF v = Base THEN EmptyDb ELSE Migrated(Upgraded[v - 1], v - 1, v)

=============================================================================
